---------------------------- MODULE Spec2Model ----------------------------
(***************************************************************************)
(* Model of the PULLING application (src/app.py, src/celery_worker.py):    *)
(*   - process_excel: the worksheet pipeline (ingestion, filters,          *)
(*     identifier reconciliation, registry join, final projection);        *)
(*   - the Flask handlers over the global data_store (upload, status,      *)
(*     filter, select_pulling, assign) and the Celery task;                *)
(*   - assign: the three-round greedy assignment and the priority matrix.  *)
(*                                                                         *)
(* Conventions.  A Python str is a sequence of one-character strings, so   *)
(* that strip/lower/upper/regex searches are computed, not assumed.  The   *)
(* accented letters are written as two-character tokens ("e'" is e-acute). *)
(* A cell value is a record [t, n, s]: t is the Python type ("none",       *)
(* "num", "bool", "str"), n the number (or 0/1 for a bool), s the text.    *)
(***************************************************************************)
EXTENDS Integers, Sequences, FiniteSets, TLC

-----------------------------------------------------------------------------
(* Text primitives used by normalize_text and custom_normalize_pozo.       *)

Range(s) == {s[i] : i \in DOMAIN s}

UPPERCASE ==
    <<"A","B","C","D","E","F","G","H","I","J","K","L","M",
      "N","O","P","Q","R","S","T","U","V","W","X","Y","Z">>

LOWERCASE ==
    <<"a","b","c","d","e","f","g","h","i","j","k","l","m",
      "n","o","p","q","r","s","t","u","v","w","x","y","z">>

ACCENT_UPPER == <<"A'","E'","I'","O'","U'">>

ACCENT_LOWER == <<"a'","e'","i'","o'","u'">>

ACCENT_BASE == <<"a","e","i","o","u">>

DIGITS == {"0","1","2","3","4","5","6","7","8","9"}

IndexOf(seq, c) == CHOOSE i \in DOMAIN seq : seq[i] = c

\* str.lower() on one character
lower_char(c) ==
    IF c \in Range(UPPERCASE) THEN LOWERCASE[IndexOf(UPPERCASE, c)]
    ELSE IF c \in Range(ACCENT_UPPER) THEN ACCENT_LOWER[IndexOf(ACCENT_UPPER, c)]
    ELSE c

\* str.upper() on one character
upper_char(c) ==
    IF c \in Range(LOWERCASE) THEN UPPERCASE[IndexOf(LOWERCASE, c)]
    ELSE IF c \in Range(ACCENT_LOWER) THEN ACCENT_UPPER[IndexOf(ACCENT_LOWER, c)]
    ELSE c

lower(s) == [i \in DOMAIN s |-> lower_char(s[i])]

upper(s) == [i \in DOMAIN s |-> upper_char(s[i])]

\* unicodedata.normalize('NFKD', .).encode('ASCII', 'ignore'): an accented
\* letter keeps its base letter, the combining mark is dropped.
ascii_fold(s) ==
    [i \in DOMAIN s |->
        IF s[i] \in Range(ACCENT_LOWER) THEN ACCENT_BASE[IndexOf(ACCENT_LOWER, s[i])]
        ELSE IF s[i] \in Range(ACCENT_UPPER)
             THEN upper_char(ACCENT_BASE[IndexOf(ACCENT_UPPER, s[i])])
        ELSE s[i]]

IsSpace(c) == c = " "

RECURSIVE lstrip(_)
lstrip(s) == IF s # <<>> /\ IsSpace(Head(s)) THEN lstrip(Tail(s)) ELSE s

RECURSIVE rstrip(_)
rstrip(s) ==
    IF s # <<>> /\ IsSpace(s[Len(s)]) THEN rstrip(SubSeq(s, 1, Len(s) - 1)) ELSE s

\* str.strip()
strip(s) == rstrip(lstrip(s))

\* re.sub(r'\s+', ' ', s)
RECURSIVE collapse_spaces(_)
collapse_spaces(s) ==
    IF s = <<>> THEN <<>>
    ELSE IF IsSpace(Head(s))
         THEN <<" ">> \o collapse_spaces(lstrip(s))
         ELSE <<Head(s)>> \o collapse_spaces(Tail(s))

\* pat in s (Python substring test)
Contains(s, pat) ==
    \E i \in 0..(Len(s) - Len(pat)) : SubSeq(s, i + 1, i + Len(pat)) = pat

-----------------------------------------------------------------------------
(* Cell values.                                                            *)

None == [t |-> "none", n |-> 0, s |-> <<>>]

Num(k) == [t |-> "num", n |-> k, s |-> <<>>]

Bool(b) == [t |-> "bool", n |-> IF b THEN 1 ELSE 0, s |-> <<>>]

Str(x) == [t |-> "str", n |-> 0, s |-> x]

\* normalize_text: a non-str is returned as it is
normalize_text(text) ==
    IF text.t # "str" THEN text
    ELSE Str(collapse_spaces(ascii_fold(lower(strip(text.s)))))

-----------------------------------------------------------------------------
(* The workbook read by openpyxl.  A cell is [value, fill]; a fill is      *)
(* [type, rgb] (fill.fgColor.type, fill.fgColor.rgb).  A workbook is       *)
(* [sheetnames, header, rows]: the names of its sheets, row 1 of sheet     *)
(* "dataset" and its rows from row 2 on (each as long as the header).      *)

\* str.upper() on the colour codes of the model
color_upper(rgb) ==
    CASE rgb = "ffff0000" -> "FFFF0000"
      [] rgb = "ff00ffff" -> "FF00FFFF"
      [] OTHER -> rgb

\* lines 139-142: header text (None reads as "") and its normalized form
header_of(ws) ==
    [i \in DOMAIN ws.header |->
        IF ws.header[i].value = None THEN Str(<<>>) ELSE ws.header[i].value]

\* The header texts the worksheets of the model have in row 1, by column
header_text(key) ==
    CASE key = "Activo" -> <<"A","c","t","i","v","o">>
      [] key = "POZO" -> <<" ","P","o","z","o"," ">>
      [] key = "X" -> <<"X">>
      [] key = "Y" -> <<"Y">>
      [] key = "Perdida [m3/d]" ->
            <<"P","E'","R","D","I","D","A"," "," ","[","m","3","/","d","]">>
      [] key = "Plan [Si/No]" -> <<"P","l","a","n"," ","[","S","i","/","N","o","]">>
      [] key = "Plan [Hs/INT]" -> <<"P","l","a","n"," ","[","H","s","/","I","N","T","]">>
      [] key = "Bateria" -> <<"B","a","t","e","r","i'","a">>
      [] key = "EQUIPO" -> <<"E","Q","U","I","P","O">>
      [] key = "OBSERVACIONES" -> <<"O","b","s","e","r","v","a","c","i","o","n","e","s">>

FullHeader ==
    <<"Activo", "POZO", "X", "Y", "Perdida [m3/d]", "Plan [Si/No]", "Plan [Hs/INT]",
      "Bateria", "EQUIPO", "OBSERVACIONES">>

\* line 142 on the header texts of the model, computed once for all runs
normalized_headers ==
    [h \in {Str(header_text(FullHeader[k])) : k \in DOMAIN FullHeader} |-> normalize_text(h)]

col_map(ws) ==
    [i \in DOMAIN ws.header |->
        IF header_of(ws)[i] \in DOMAIN normalized_headers
        THEN normalized_headers[header_of(ws)[i]]
        ELSE normalize_text(header_of(ws)[i])]

\* lines 144-153: the last column whose normalized name contains pat
\* (0 stands for None)
find_idx(ws, pat) ==
    LET hits == {i \in DOMAIN ws.header : Contains(col_map(ws)[i].s, pat)}
    IN  IF hits = {} THEN 0 ELSE CHOOSE i \in hits : \A j \in hits : j <= i

observaciones_idx(ws) == find_idx(ws, <<"o","b","s","e","r","v","a","c">>)

pozo_idx(ws) == find_idx(ws, <<"p","o","z","o">>)

equipo_idx(ws) == find_idx(ws, <<"e","q","u","i","p","o">>)

\* Variant of is_red: the colour of the remarks cell is never looked at
is_red_never(ws, row) == FALSE

\* lines 163-168: the OBSERVACIONES cell is filled red
is_red(ws, row) ==
    /\ observaciones_idx(ws) # 0
    /\ row[observaciones_idx(ws)].fill.type = "rgb"
    /\ color_upper(row[observaciones_idx(ws)].fill.rgb) = "FFFF0000"

\* lines 171-176: the EQUIPO cell names a B2 or B3 unit
is_b2_b3(ws, row) ==
    /\ equipo_idx(ws) # 0
    /\ row[equipo_idx(ws)].value.t = "str"
    /\ row[equipo_idx(ws)].value.s # <<>>
    /\ \/ Contains(lower(row[equipo_idx(ws)].value.s), <<"b","2">>)
       \/ Contains(lower(row[equipo_idx(ws)].value.s), <<"b","3">>)

\* lines 179-185: the POZO cell is filled cyan
is_celeste(ws, row) ==
    /\ pozo_idx(ws) # 0
    /\ row[pozo_idx(ws)].fill.type = "rgb"
    /\ color_upper(row[pozo_idx(ws)].fill.rgb) = "FF00FFFF"

\* lines 157-193: one record per surviving row, in worksheet order.  Field
\* row is the worksheet position of the row (kept to tell rows apart), v its
\* values by column.
ingest(ws) ==
    LET all == [i \in DOMAIN ws.rows |->
                  [row |-> i,
                   CELESTE |-> is_celeste(ws, ws.rows[i]),
                   v |-> [c \in DOMAIN ws.rows[i] |-> ws.rows[i][c].value]]]
        keep(r) == ~is_red(ws, ws.rows[r.row]) /\ ~is_b2_b3(ws, ws.rows[r.row])
    IN  [columns |-> IF SelectSeq(all, keep) = <<>> THEN <<>>
                     ELSE [i \in DOMAIN ws.header |->
                             [canon |-> "", raw |-> header_of(ws)[i].s]],
         rows |-> SelectSeq(all, keep)]

\* lines 199-216
expected ==
    { <<<<"a","c","t","i","v","o">>, "Activo">>,
      <<<<"p","o","z","o">>, "POZO">>,
      <<<<"x">>, "X">>,
      <<<<"y">>, "Y">>,
      <<<<"p","e","r","d","i","d","a"," ","[","m","3","/","d","]">>, "Perdida [m3/d]">>,
      <<<<"p","l","a","n"," ","[","s","i","/","n","o","]">>, "Plan [Si/No]">>,
      <<<<"p","l","a","n"," ","[","h","s","/","i","n","t","]">>, "Plan [Hs/INT]">>,
      <<<<"s","e","a">>, "SEA">>,
      <<<<"a","c","c","i","o","n">>, "Accion">>,
      <<<<"o","t">>, "OT">>,
      <<<<"i","c","p">>, "ICP">>,
      <<<<"r","e","q","u","e","r","i","m","i","e","n","t","o","s">>, "REQUERIMIENTOS">>,
      <<<<"b","a","t","e","r","i","a">>, "Bateria">>,
      <<<<"o","i">>, "OI">>,
      <<<<"e","q","u","i","p","o">>, "EQUIPO">>,
      <<<<"o","b","s","e","r","v","a","c","i","o","n","e","s">>, "OBSERVACIONES">> }

\* lines 217-222: a column whose normalized name is a key of expected takes
\* the expected name
rename_columns(df) ==
    [df EXCEPT !.columns =
        [i \in DOMAIN df.columns |->
            LET norm == normalize_text(Str(df.columns[i].raw)).s
            IN  IF \E e \in expected : e[1] = norm
                THEN [canon |-> (CHOOSE e \in expected : e[1] = norm)[2],
                      raw |-> df.columns[i].raw]
                ELSE df.columns[i]]]

\* col in df.columns, and df[col] of one row
has_col(df, col) == \E i \in DOMAIN df.columns : df.columns[i].canon = col

col_idx(df, col) == CHOOSE i \in DOMAIN df.columns : df.columns[i].canon = col

val(df, r, col) == r.v[col_idx(df, col)]

-----------------------------------------------------------------------------
(* Lines 227-248: coercion and sort by loss, the preview, the filters.     *)

NaN == [t |-> "nan", n |-> 0, s |-> <<>>]

\* Series.notnull()
notnull(v) == v.t \notin {"none", "nan"}

\* v == k and v != k between a cell and a number (a str is never equal,
\* True equals 1 and False equals 0)
num_eq(v, k) == v.t \in {"num", "bool"} /\ v.n = k

digit_value(c) ==
    CASE c = "0" -> 0 [] c = "1" -> 1 [] c = "2" -> 2 [] c = "3" -> 3
      [] c = "4" -> 4 [] c = "5" -> 5 [] c = "6" -> 6 [] c = "7" -> 7
      [] c = "8" -> 8 [] c = "9" -> 9

RECURSIVE parse_digits(_, _)
parse_digits(s, acc) ==
    IF s = <<>> THEN acc ELSE parse_digits(Tail(s), 10 * acc + digit_value(Head(s)))

\* pd.to_numeric(., errors="coerce"): a number stays, a str of digits is
\* parsed, anything else is NaN
to_numeric(v) ==
    CASE v.t = "num" -> v
      [] v.t = "bool" -> Num(v.n)
      [] v.t = "str" /\ strip(v.s) # <<>> /\ Range(strip(v.s)) \subseteq DIGITS
            -> Num(parse_digits(strip(v.s), 0))
      [] OTHER -> NaN

\* One pass of the descending sort: the rows in order of decreasing key, rows
\* of equal key in their order in rs (numpy sorts the short arrays of the model
\* by insertion), rows whose key is NaN last.
RECURSIVE sort_desc(_, _)
sort_desc(rs, c) ==
    LET nums == {i \in DOMAIN rs : rs[i].v[c].t = "num"}
    IN  IF nums = {} THEN rs
        ELSE LET top == CHOOSE i \in nums :
                          \A j \in nums : \/ rs[j].v[c].n < rs[i].v[c].n
                                          \/ (rs[j].v[c].n = rs[i].v[c].n /\ i <= j)
             IN  <<rs[top]>>
                 \o sort_desc(SubSeq(rs, 1, top - 1) \o SubSeq(rs, top + 1, Len(rs)), c)

\* lines 227-229
sort_by_perdida(df) ==
    IF ~has_col(df, "Perdida [m3/d]") THEN df
    ELSE LET c == col_idx(df, "Perdida [m3/d]")
             coerced == [i \in DOMAIN df.rows |->
                           [df.rows[i] EXCEPT !.v[c] = to_numeric(df.rows[i].v[c])]]
         IN  [df EXCEPT !.rows = sort_desc(coerced, c)]

\* Variant of head: the whole frame
head_all(df, n) == df

\* DataFrame.head(n)
head(df, n) ==
    [df EXCEPT !.rows = SubSeq(df.rows, 1, IF Len(df.rows) < n THEN Len(df.rows) ELSE n)]

\* Variant of filter_plan: keeps every row whose plan value is not 0
filter_plan_nonzero(df) ==
    IF ~has_col(df, "Plan [Si/No]") THEN df
    ELSE LET keep(r) == ~num_eq(val(df, r, "Plan [Si/No]"), 0)
         IN  [df EXCEPT !.rows = SelectSeq(df.rows, keep)]

\* lines 232-233
filter_plan(df) ==
    IF ~has_col(df, "Plan [Si/No]") THEN df
    ELSE LET keep(r) == num_eq(val(df, r, "Plan [Si/No]"), 1)
         IN  [df EXCEPT !.rows = SelectSeq(df.rows, keep)]

\* line 235
cols_criticas ==
    <<"Activo", "POZO", "X", "Y", "Perdida [m3/d]", "Plan [Si/No]", "Plan [Hs/INT]", "EQUIPO">>

\* lines 236-239
filter_criticas(df) ==
    LET keep(r) == \A k \in DOMAIN cols_criticas :
                      has_col(df, cols_criticas[k]) =>
                          /\ notnull(val(df, r, cols_criticas[k]))
                          /\ ~num_eq(val(df, r, cols_criticas[k]), 0)
    IN  [df EXCEPT !.rows = SelectSeq(df.rows, keep)]

\* line 242
patrones ==
    { <<"f","b">>, <<"p","e","s","a","d","o">>,
      <<"z"," ","i","n","y","e","c","t","o","r">>,
      <<"z"," ","r","e","c","u","p","e","r","o">> }

\* lines 243-247
no_contiene(valor) ==
    IF valor.t # "str" THEN TRUE
    ELSE ~\E pat \in patrones : Contains(normalize_text(valor).s, pat)

\* lines 241-248
filter_equipo(df) ==
    IF ~has_col(df, "EQUIPO") THEN df
    ELSE LET keep(r) == no_contiene(val(df, r, "EQUIPO"))
         IN  [df EXCEPT !.rows = SelectSeq(df.rows, keep)]

-----------------------------------------------------------------------------
(* Lines 83-126: custom_normalize_pozo and difflib.SequenceMatcher.        *)

\* lines 83-87: the first maximal run of digits, "" when there is none
extract_number(s) ==
    LET starts == {i \in DOMAIN s : s[i] \in DIGITS}
    IN  IF starts = {} THEN <<>>
        ELSE LET lo == CHOOSE i \in starts : \A j \in starts : i <= j
                 ends == {k \in lo..Len(s) : \A m \in lo..k : s[m] \in DIGITS}
                 hi == CHOOSE k \in ends : \A m \in ends : m <= k
             IN  SubSeq(s, lo, hi)

\* lines 89-92: the letters A-Z of s.upper(), concatenated
extract_letters(s) ==
    LET isLetter(c) == c \in Range(UPPERCASE)
    IN  SelectSeq(upper(s), isLetter)

\* SequenceMatcher.find_longest_match without junk: the longest common block,
\* the one starting earliest in a, then earliest in b; <<0, 0, 0>> when the
\* sequences share no element.
find_longest_match(a, b) ==
    LET blocks == {x \in (1..Len(a)) \X (1..Len(b)) \X (1..Len(a)) :
                      /\ x[1] + x[3] - 1 <= Len(a)
                      /\ x[2] + x[3] - 1 <= Len(b)
                      /\ SubSeq(a, x[1], x[1] + x[3] - 1) = SubSeq(b, x[2], x[2] + x[3] - 1)}
    IN  IF blocks = {} THEN <<0, 0, 0>>
        ELSE CHOOSE x \in blocks : \A y \in blocks :
                \/ y[3] < x[3]
                \/ (y[3] = x[3] /\ x[1] < y[1])
                \/ (y[3] = x[3] /\ x[1] = y[1] /\ x[2] <= y[2])

\* SequenceMatcher.get_matching_blocks: the total size of the matching blocks,
\* found by matching the longest block and then both sides of it
RECURSIVE matches(_, _)
matches(a, b) ==
    LET m == find_longest_match(a, b)
    IN  IF m[3] = 0 THEN 0
        ELSE m[3]
             + matches(SubSeq(a, 1, m[1] - 1), SubSeq(b, 1, m[2] - 1))
             + matches(SubSeq(a, m[1] + m[3], Len(a)), SubSeq(b, m[2] + m[3], Len(b)))

\* SequenceMatcher(None, a, b).ratio() = 2.0 * M / T as the fraction
\* <<numerator, denominator>>, 1.0 when both sequences are empty
ratio(a, b) ==
    IF Len(a) + Len(b) = 0 THEN <<1, 1>> ELSE <<2 * matches(a, b), Len(a) + Len(b)>>

\* r > q and r >= 1/2 on fractions with positive denominators
ratio_gt(r, q) == r[1] * q[2] > q[1] * r[2]

\* Variant of ratio_ge_threshold: any ratio passes
ratio_ge_any(r) == TRUE

\* line 126, letter_threshold = 0.5
ratio_ge_threshold(r) == 2 * r[1] >= r[2]

\* lines 118-125: the first candidate of strictly highest ratio, as
\* [cand, ratio]; cand is None while no ratio exceeded 0
RECURSIVE best_of(_, _, _)
best_of(cands, user_letters, best) ==
    IF cands = <<>> THEN best
    ELSE LET r == ratio(user_letters, extract_letters(Head(cands)))
         IN  best_of(Tail(cands), user_letters,
                     IF ratio_gt(r, best.ratio)
                     THEN [cand |-> Str(Head(cands)), ratio |-> r] ELSE best)

\* lines 94-126
custom_normalize_pozo(user_pozo, coord_list) ==
    IF user_pozo.t # "str" THEN user_pozo
    ELSE LET stripped == strip(user_pozo.s)
             user_number == extract_number(stripped)
             user_letters == extract_letters(stripped)
             sameNumber(cand) == extract_number(cand) = user_number /\ user_number # <<>>
             candidates == SelectSeq([i \in DOMAIN coord_list |-> strip(coord_list[i])],
                                     sameNumber)
             best == best_of(candidates, user_letters, [cand |-> None, ratio |-> <<0, 1>>])
         IN  IF candidates = <<>> THEN Str(stripped)
             ELSE IF Len(candidates) = 1 THEN Str(candidates[1])
             ELSE IF ratio_ge_threshold(best.ratio) THEN best.cand ELSE Str(stripped)

-----------------------------------------------------------------------------
(* Lines 254-316: the coordinate registry (coordenadas.xlsx), the exact    *)
(* merge, the registry join and the final projection.  The registry is a   *)
(* sequence of entries [POZO, GEO_LATITUDE, GEO_LONGITUDE] of cell values. *)

\* list(.): the elements of a sequence, each computed once
list(s) == SubSeq(s, 1, Len(s))

\* Concatenation of a sequence of sequences
RECURSIVE flatten(_)
flatten(ss) == IF ss = <<>> THEN <<>> ELSE Head(ss) \o flatten(Tail(ss))

\* line 256: the registry identifiers that are not null, as str
lista_pozos_coords(coords) ==
    LET present(e) == notnull(e.POZO)
        kept == SelectSeq(coords, present)
    IN  [i \in DOMAIN kept |-> kept[i].POZO.s]

\* lines 259-260: astype(str).str.strip().str.upper()
pozo_tmp(v) == upper(strip(v.s))

\* lines 259-281: a row whose trimmed upper-cased identifier equals that of
\* registry entries takes the registry spelling (one row per such entry, in
\* registry order); any other row takes custom_normalize_pozo of its own.
reconcile(df, coords) ==
    LET c == col_idx(df, "POZO")
        exact(r) == LET same(e) == pozo_tmp(e.POZO) = pozo_tmp(r.v[c])
                    IN  SelectSeq(coords, same)
        out(r) == IF exact(r) = <<>>
                  THEN << [r EXCEPT !.v[c] =
                             custom_normalize_pozo(r.v[c], lista_pozos_coords(coords))] >>
                  ELSE [k \in DOMAIN exact(r) |-> [r EXCEPT !.v[c] = exact(r)[k].POZO]]
    IN  [df EXCEPT !.rows = flatten([i \in DOMAIN df.rows |-> out(df.rows[i])])]

\* Series.unique(): the values in their order of first appearance
RECURSIVE unique(_)
unique(s) ==
    IF s = <<>> THEN <<>>
    ELSE LET init == SubSeq(s, 1, Len(s) - 1)
             last == s[Len(s)]
         IN  IF last \in Range(init) THEN unique(init) ELSE unique(init) \o <<last>>

\* line 286: the identifiers of the rows flagged CELESTE
celestes_of(df) ==
    LET flagged(r) == r.CELESTE
        rs == SelectSeq(df.rows, flagged)
    IN  unique([i \in DOMAIN rs |-> val(df, rs[i], "POZO").s])

\* lines 290-291: astype(str).str.replace(",", ".").astype(float), in tenths
\* of a degree: "12,5" and "12.5" read 125, a number k reads 10 * k, a
\* missing cell reads NaN ("nan" parses as a float)
parse_coord(v) ==
    CASE v.t = "num" -> Num(10 * v.n)
      [] v.t = "str" ->
            LET dotted == [i \in DOMAIN v.s |-> IF v.s[i] = "," THEN "." ELSE v.s[i]]
                dots == {i \in DOMAIN dotted : dotted[i] = "."}
                cut == IF dots = {} THEN Len(dotted) + 1 ELSE CHOOSE i \in dots : TRUE
                whole == SubSeq(dotted, 1, cut - 1)
                frac == SubSeq(dotted, cut + 1, Len(dotted))
            IN  Num(10 * parse_digits(whole, 0)
                    + (IF frac = <<>> THEN 0 ELSE digit_value(frac[1])))
      [] OTHER -> NaN

\* line 292: left join on POZO; a row with no registry entry of its
\* identifier has NaN coordinates
geo_merge(df, coords) ==
    LET c == col_idx(df, "POZO")
        hits(r) == LET same(e) == e.POZO = r.v[c] IN SelectSeq(coords, same)
        out(r) == IF hits(r) = <<>>
                  THEN << [data |-> r, GEO_LATITUDE |-> NaN, GEO_LONGITUDE |-> NaN] >>
                  ELSE [k \in DOMAIN hits(r) |->
                          [data |-> r,
                           GEO_LATITUDE |-> parse_coord(hits(r)[k].GEO_LATITUDE),
                           GEO_LONGITUDE |-> parse_coord(hits(r)[k].GEO_LONGITUDE)]]
    IN  flatten([i \in DOMAIN df.rows |-> out(df.rows[i])])

has_coords(m) == notnull(m.GEO_LATITUDE) /\ notnull(m.GEO_LONGITUDE)

\* lines 294-296
missing_of(df, merged) ==
    LET lacking(m) == ~has_coords(m)
        rs == SelectSeq(merged, lacking)
    IN  unique([i \in DOMAIN rs |-> val(df, rs[i].data, "POZO").s])

\* line 299
dropna(merged) == SelectSeq(merged, has_coords)

\* line 313, with the names of lines 303-308
orden_final ==
    <<"POZO", "NETA [M3/D]", "PROD_DT", "RUBRO", "GEO_LATITUDE", "GEO_LONGITUDE",
      "BATERIA", "ZONA", "TIEMPO PLANIFICADO">>

\* the column of df_main each output column is taken from ("" for none)
origen(col) ==
    CASE col = "POZO" -> "POZO"
      [] col = "NETA [M3/D]" -> "Perdida [m3/d]"
      [] col = "TIEMPO PLANIFICADO" -> "Plan [Hs/INT]"
      [] col = "BATERIA" -> "Bateria"
      [] col = "ZONA" -> "Activo"
      [] OTHER -> ""

\* lines 301-314: the output columns present, and one record per row
finalize(df, merged) ==
    LET present(col) == origen(col) = "" \/ has_col(df, origen(col))
        field(m, col) ==
            IF has_col(df, origen(col)) THEN val(df, m.data, origen(col)) ELSE None
    IN  [columns |-> SelectSeq(orden_final, present),
         rows |-> [i \in DOMAIN merged |->
                     [row |-> merged[i].data.row,
                      POZO |-> field(merged[i], "POZO"),
                      NETA |-> field(merged[i], "NETA [M3/D]"),
                      GEO_LATITUDE |-> merged[i].GEO_LATITUDE,
                      GEO_LONGITUDE |-> merged[i].GEO_LONGITUDE,
                      BATERIA |-> field(merged[i], "BATERIA"),
                      ZONA |-> field(merged[i], "ZONA"),
                      TIEMPO |-> field(merged[i], "TIEMPO PLANIFICADO")]]]

\* line 230: preview_df = df_main.head(20)
PREVIEW_ROWS == 20

\* The empty DataFrame (pd.DataFrame([]) has no columns)
EmptyDF == [columns |-> <<>>, rows |-> <<>>]

\* flash() reads the session of the current request: process_excel runs in
\* the Celery task (celery_worker.py line 36), where there is none, and the
\* call raises RuntimeError.
HasRequestContext == FALSE

\* the result of a run that raised
failed(e) ==
    [error |-> e, df_merged |-> EmptyDF, preview_df |-> EmptyDF, pozos_celestes |-> <<>>]

\* lines 294-316, with the joined rows at hand
process_merged(preview, reconciled, merged) ==
    IF missing_of(reconciled, merged) # <<>> /\ ~HasRequestContext
    THEN failed("RuntimeError")
    ELSE [error |-> "",
          df_merged |-> finalize(reconciled, dropna(merged)),
          preview_df |-> preview,
          pozos_celestes |-> celestes_of(reconciled)]

\* lines 286-316, with the reconciled frame at hand
process_reconciled(preview, reconciled, coords) ==
    process_merged(preview, reconciled, geo_merge(reconciled, coords))

\* lines 254-316, with the filtered frame at hand.  Assigning the result of
\* DataFrame.apply on a frame with no rows (line 277) raises or not with the
\* pandas release: empty_raises is that outcome.
process_filtered(preview, filtered, coords, empty_raises) ==
    IF ~has_col(filtered, "POZO") THEN failed("KeyError")
    ELSE IF filtered.rows = <<>> /\ empty_raises THEN failed("ValueError")
    ELSE process_reconciled(preview, reconcile(filtered, coords), coords)

\* lines 227-316, with the renamed and sorted frame at hand
process_sorted(ordered, coords, empty_raises) ==
    process_filtered(head(ordered, PREVIEW_ROWS),
                     filter_equipo(filter_criticas(filter_plan(ordered))),
                     coords, empty_raises)

\* process_excel as one function of the workbook and the registry:
\* [error, df_merged, preview_df, pozos_celestes], error "" on return
process_excel(file, coords, empty_raises) ==
    IF "dataset" \notin file.sheetnames THEN failed("ValueError")
    ELSE process_sorted(sort_by_perdida(rename_columns(ingest(file))), coords,
                        empty_raises)

-----------------------------------------------------------------------------
(* The workbooks and registries the model is run on.                       *)

NoFill == [type |-> "rgb", rgb |-> "00000000"]

RedFill == [type |-> "rgb", rgb |-> "FFFF0000"]

RedFillLower == [type |-> "rgb", rgb |-> "ffff0000"]

CyanFill == [type |-> "rgb", rgb |-> "FF00FFFF"]

\* the same sheet without a remarks column
ShortHeader == SubSeq(FullHeader, 1, 9)

Z1 == Str(<<"Z","1">>)

Z2 == Str(<<"Z","2">>)

PU == Str(<<"P","U">>)

\* One worksheet row: zone, well id and its fill, loss, plan flag, planned
\* hours, equipment and the fill of the remarks cell
Row(zona, pozo, pozoFill, perdida, plan, hs, equipo, obsFill) ==
    [zona |-> zona, pozo |-> pozo, pozoFill |-> pozoFill, perdida |-> perdida,
     plan |-> plan, hs |-> hs, equipo |-> equipo, obsFill |-> obsFill]

\* The rows a worksheet of the pipeline runs is made of
ROWS ==
    << Row(Z1, Str(<<"A","1">>), NoFill, Num(5), Num(1), Num(2), PU, NoFill),
       Row(Z1, Str(<<" ","a","2">>), CyanFill, Num(7), Num(1), Num(1), PU, NoFill),
       Row(Z2, Str(<<"A","3">>), CyanFill, Num(9), Num(1), Num(3), PU, RedFill),
       Row(Z2, Str(<<"B","-","7">>), NoFill, Str(<<"8">>), Num(1), Num(2), PU, RedFillLower),
       Row(Z1, Str(<<"A","3">>), CyanFill, Num(6), Num(0), Num(2), PU, NoFill),
       Row(Z2, Str(<<"B","-","7">>), NoFill, Num(4), Str(<<"1">>), Num(2), PU, NoFill),
       Row(Z1, Str(<<"A","1">>), NoFill, Num(3), Bool(TRUE), Num(0), PU, NoFill),
       Row(Z2, Str(<<"X","9">>), NoFill, Num(8), Num(1), Num(2), PU, NoFill),
       Row(Z1, Str(<<"B","-","7">>), NoFill, Num(2), Num(1), Num(4),
           Str(<<"E","q"," ","P","e","s","a","d","o">>), NoFill),
       Row(Z2, Str(<<"A","3">>), NoFill, None, Num(1), Num(2),
           Str(<<"p","u"," ","B","3">>), NoFill),
       Row(Z2, Str(<<"A","3">>), NoFill, Num(7), Num(1), Num(5), PU, NoFill) >>

\* the cell of a row under one header column
cell_of(r, key) ==
    CASE key = "Activo" -> [value |-> r.zona, fill |-> NoFill]
      [] key = "POZO" -> [value |-> r.pozo, fill |-> r.pozoFill]
      [] key = "Perdida [m3/d]" -> [value |-> r.perdida, fill |-> NoFill]
      [] key = "Plan [Si/No]" -> [value |-> r.plan, fill |-> NoFill]
      [] key = "Plan [Hs/INT]" -> [value |-> r.hs, fill |-> NoFill]
      [] key = "Bateria" -> [value |-> Str(<<"B","a","t">>), fill |-> NoFill]
      [] key = "EQUIPO" -> [value |-> r.equipo, fill |-> NoFill]
      [] key = "OBSERVACIONES" -> [value |-> None, fill |-> r.obsFill]
      [] OTHER -> [value |-> Num(1), fill |-> NoFill]

\* the workbook with the given sheets, header and rows
Workbook(sheets, keys, rs) ==
    [sheetnames |-> sheets,
     header |-> [i \in DOMAIN keys |-> [value |-> Str(header_text(keys[i])), fill |-> NoFill]],
     rows |-> [i \in DOMAIN rs |-> [c \in DOMAIN keys |-> cell_of(rs[i], keys[c])]]]

\* coordenadas.xlsx: comma and point decimals, numbers, two wells on one pad
\* (A1, A2) and a well with no latitude
REGISTRY ==
    << [POZO |-> Str(<<"A","1">>), GEO_LATITUDE |-> Str(<<"1","0">>),
        GEO_LONGITUDE |-> Str(<<"2","0">>)],
       [POZO |-> Str(<<"A","2">>), GEO_LATITUDE |-> Num(10),
        GEO_LONGITUDE |-> Str(<<"2","0",",","0">>)],
       [POZO |-> Str(<<"A","3">>), GEO_LATITUDE |-> Str(<<"1","0",",","4">>),
        GEO_LONGITUDE |-> Str(<<"2","0">>)],
       [POZO |-> Str(<<"B","7">>), GEO_LATITUDE |-> Str(<<"1","0",".","2">>),
        GEO_LONGITUDE |-> Num(20)],
       [POZO |-> Str(<<"C","5">>), GEO_LATITUDE |-> Str(<<"9",",","8">>),
        GEO_LONGITUDE |-> Str(<<"2","0">>)],
       [POZO |-> Str(<<"C","4">>), GEO_LATITUDE |-> None,
        GEO_LONGITUDE |-> Str(<<"2","3">>)] >>

\* Another coordenadas.xlsx: A1 listed twice (as A1 and a1), two identifiers
\* of number 7 and two of number 3, a padded one of number 9, none of number 2
REGISTRY2 ==
    << [POZO |-> Str(<<"A","1">>), GEO_LATITUDE |-> Num(10), GEO_LONGITUDE |-> Num(20)],
       [POZO |-> Str(<<"a","1">>), GEO_LATITUDE |-> Num(10), GEO_LONGITUDE |-> Num(20)],
       [POZO |-> Str(<<"A","B","7">>), GEO_LATITUDE |-> Num(10), GEO_LONGITUDE |-> Num(21)],
       [POZO |-> Str(<<"X","Y","7">>), GEO_LATITUDE |-> Num(11), GEO_LONGITUDE |-> Num(21)],
       [POZO |-> Str(<<"K","L","M","A","3">>), GEO_LATITUDE |-> Num(11),
        GEO_LONGITUDE |-> Num(20)],
       [POZO |-> Str(<<"N","O","P","3">>), GEO_LATITUDE |-> Num(11),
        GEO_LONGITUDE |-> Num(22)],
       [POZO |-> Str(<<" ","P","9"," ">>), GEO_LATITUDE |-> Num(12),
        GEO_LONGITUDE |-> Num(20)] >>

\* the registries of the pipeline runs
Registries == {REGISTRY, REGISTRY2}

\* The workbooks uploaded to the web application.  Campo: five wells in two
\* zones, A1 and A2 flagged as the suggested starting wells.  Campo2: another
\* field, without A2, one well with a planned time of -1.  SinHoja: no sheet
\* named dataset.
Campo ==
    Workbook({"dataset"}, FullHeader,
        << Row(Z1, Str(<<"A","1">>), CyanFill, Num(4), Num(1), Num(2), PU, NoFill),
           Row(Z1, Str(<<"a","2">>), CyanFill, Num(3), Num(1), Num(2), PU, NoFill),
           Row(Z1, Str(<<"A","3">>), NoFill, Num(27), Num(1), Num(1), PU, NoFill),
           Row(Z1, Str(<<"B","-","7">>), NoFill, Num(18), Num(1), Num(1), PU, NoFill),
           Row(Z2, Str(<<"C","5">>), NoFill, Num(10), Num(1), Num(1), PU, NoFill),
           Row(Z2, Str(<<"A","3">>), NoFill, Num(50), Num(1), Num(1), PU, RedFill) >>)

Campo2 ==
    Workbook({"dataset"}, FullHeader,
        << Row(Z1, Str(<<"A","1">>), NoFill, Num(5), Num(1), Num(2), PU, NoFill),
           Row(Z1, Str(<<"B","7">>), NoFill, Num(6), Num(1), Num(-1), PU, NoFill),
           Row(Z1, Str(<<"C","5">>), NoFill, Num(9), Num(0), Num(1), PU, NoFill) >>)

SinHoja == Workbook({"Hoja1"}, FullHeader, <<ROWS[1]>>)

\* the files of the uploads folder, by name
Uploads == {"Campo", "Campo2", "SinHoja"}

\* load_workbook(file_path)
load_workbook(name) ==
    CASE name = "Campo" -> Campo
      [] name = "Campo2" -> Campo2
      [] OTHER -> SinHoja

\* a worksheet of one row more than the preview holds: well A1 with a loss
\* of 1 in the first row, 2 in the second, and so on
Largo ==
    Workbook({"dataset"}, FullHeader,
             [i \in 1..(PREVIEW_ROWS + 1) |->
                Row(Z1, Str(<<"A","1">>), NoFill, Num(i), Num(1), Num(2), PU, NoFill)])

\* a worksheet whose second row has the empty str for its zone
SinActivo ==
    Workbook({"dataset"}, FullHeader,
        << ROWS[1],
           Row(Str(<<>>), Str(<<"A","3">>), NoFill, Num(6), Num(1), Num(2), PU, NoFill) >>)

\* the longest worksheet of the pipeline runs
MaxRows == 2

\* the worksheets of the pipeline runs: every sequence of at most MaxRows
\* rows of ROWS, with and without a remarks column, a workbook that has no
\* sheet named dataset, one longer than the preview and one with an empty
\* zone cell
Workbooks ==
    { Workbook({"dataset", "Hoja2"}, keys, [i \in DOMAIN f |-> ROWS[f[i]]]) :
        <<keys, f>> \in {FullHeader, ShortHeader}
                         \X UNION {[1..n -> DOMAIN ROWS] : n \in 0..MaxRows} }
    \cup { SinHoja, Largo, SinActivo }

-----------------------------------------------------------------------------
(* State.                                                                  *)

VARIABLES
    \* one run of process_excel (lines 48-316), stage by stage
    excel_pc,            \* the stage reached, "failed" after a raise
    file_path,           \* the workbook being read
    df_coords,           \* the registry
    df_main,             \* the records, as each stage leaves them
    preview_df,          \* line 230
    pozos_celestes,      \* line 286
    df_merged,           \* the returned dataset
    missing_pozos,       \* lines 294-296
    \* the web application
    data_store,          \* line 27: the global session dictionary
    task,                \* the Celery task of the last upload and its result
    respuesta,           \* the response to the last request (status 0: not yet sent)
    \* one run of assign (lines 503-701)
    assign_pc,           \* "idle", "ronda", "turno", "matriz", "done", "error"
    pulling_lista,       \* line 513
    pozos_ocupados,      \* line 514
    no_asignados,        \* line 541
    pulling_asignaciones,\* line 564
    nivel,               \* the round, 1..3 for N+1..N+3
    turno,               \* the position in pulling_lista of the next unit
    pozo_referencia,     \* line 544: the reference well of the last turn
    candidatos,          \* lines 545-550: the ranked candidates of the last turn
    flashes,             \* the warnings of line 558, as <<nivel, unit>>
    matriz_prioridad,    \* line 572
    eventos              \* the claims made so far, as [nivel, pulling, pozo]

excelVars ==
    <<excel_pc, file_path, df_coords, df_main, preview_df, pozos_celestes,
      df_merged, missing_pozos>>

storeVars == <<data_store, task, respuesta>>

assignVars ==
    <<assign_pc, pulling_lista, pozos_ocupados, no_asignados, pulling_asignaciones,
      nivel, turno, pozo_referencia, candidatos, flashes, matriz_prioridad, eventos>>

vars == <<excelVars, storeVars, assignVars>>

\* no pipeline run
ExcelIdle ==
    /\ excel_pc = "idle"
    /\ file_path = Workbook({}, <<>>, <<>>)
    /\ df_coords = <<>>
    /\ df_main = EmptyDF
    /\ preview_df = EmptyDF
    /\ pozos_celestes = <<>>
    /\ df_merged = EmptyDF
    /\ missing_pozos = <<>>

\* the application as started: an empty data_store, no task, no run of assign
WebIdle ==
    /\ data_store = [k \in {} |-> None]
    /\ task = [state |-> "NONE", filepath |-> "", result |-> [error |-> ""]]
    /\ respuesta = [ruta |-> "", status |-> 0, redirect |-> ""]
    /\ assign_pc = "idle"
    /\ pulling_lista = <<>>
    /\ pozos_ocupados = {}
    /\ no_asignados = <<>>
    /\ pulling_asignaciones = <<>>
    /\ nivel = 0
    /\ turno = 0
    /\ pozo_referencia = <<>>
    /\ candidatos = <<>>
    /\ flashes = <<>>
    /\ matriz_prioridad = <<>>
    /\ eventos = <<>>

-----------------------------------------------------------------------------
(* process_excel stage by stage.                                           *)

\* lines 131-193: open the workbook, read sheet "dataset"
LoadWorkbook ==
    /\ excel_pc = "start"
    /\ IF "dataset" \notin file_path.sheetnames
       THEN excel_pc' = "failed" /\ UNCHANGED df_main
       ELSE excel_pc' = "ingested" /\ df_main' = ingest(file_path)
    /\ UNCHANGED <<file_path, df_coords, preview_df, pozos_celestes, df_merged,
                   missing_pozos, storeVars, assignVars>>

\* lines 198-230: rename the columns, sort by loss, take the preview
SortAndPreview ==
    /\ excel_pc = "ingested"
    /\ df_main' = sort_by_perdida(rename_columns(df_main))
    /\ preview_df' = head(df_main', PREVIEW_ROWS)
    /\ excel_pc' = "previewed"
    /\ UNCHANGED <<file_path, df_coords, pozos_celestes, df_merged, missing_pozos,
                   storeVars, assignVars>>

\* lines 232-233
FilterPlan ==
    /\ excel_pc = "previewed"
    /\ df_main' = filter_plan(df_main)
    /\ excel_pc' = "plan_filtered"
    /\ UNCHANGED <<file_path, df_coords, preview_df, pozos_celestes, df_merged,
                   missing_pozos, storeVars, assignVars>>

\* lines 235-248
FilterCriticasEquipo ==
    /\ excel_pc = "plan_filtered"
    /\ df_main' = filter_equipo(filter_criticas(df_main))
    /\ excel_pc' = "filtered"
    /\ UNCHANGED <<file_path, df_coords, preview_df, pozos_celestes, df_merged,
                   missing_pozos, storeVars, assignVars>>

\* lines 254-286: df["POZO"] raises KeyError on a frame without the column;
\* on a frame with no rows line 277 raises or not with the pandas release
Reconcile ==
    /\ excel_pc = "filtered"
    /\ \E empty_raises \in BOOLEAN :
          IF ~has_col(df_main, "POZO") \/ (df_main.rows = <<>> /\ empty_raises)
          THEN excel_pc' = "failed" /\ UNCHANGED <<df_main, pozos_celestes>>
          ELSE /\ excel_pc' = "reconciled"
               /\ df_main' = reconcile(df_main, df_coords)
               /\ pozos_celestes' = celestes_of(df_main')
    /\ UNCHANGED <<file_path, df_coords, preview_df, df_merged, missing_pozos,
                   storeVars, assignVars>>

\* lines 290-316: the registry join; flash raises outside a request
GeoFinalize ==
    /\ excel_pc = "reconciled"
    /\ LET merged == geo_merge(df_main, df_coords)
       IN  /\ missing_pozos' = missing_of(df_main, merged)
           /\ IF missing_pozos' # <<>> /\ ~HasRequestContext
              THEN excel_pc' = "failed" /\ UNCHANGED df_merged
              ELSE excel_pc' = "done" /\ df_merged' = finalize(df_main, dropna(merged))
    /\ UNCHANGED <<file_path, df_coords, df_main, preview_df, pozos_celestes,
                   storeVars, assignVars>>

InitExcel ==
    /\ excel_pc = "start"
    /\ file_path \in Workbooks
    /\ df_coords \in Registries
    /\ df_main = EmptyDF
    /\ preview_df = EmptyDF
    /\ pozos_celestes = <<>>
    /\ df_merged = EmptyDF
    /\ missing_pozos = <<>>
    /\ WebIdle

NextExcel ==
    \/ LoadWorkbook
    \/ SortAndPreview
    \/ FilterPlan
    \/ FilterCriticasEquipo
    \/ Reconcile
    \/ GeoFinalize

\* the runs of process_excel over the workbooks of the model
SpecExcel == InitExcel /\ [][NextExcel]_vars

-----------------------------------------------------------------------------
(* The upload, its Celery task, and the handlers that fill data_store.     *)
(* The handlers run one request at a time.                                 *)

\* the order of str (by code point) on the characters of the model
CHAR_ORDER ==
    <<" ", "-", "/", "0", "1", "2", "3", "4", "5", "6", "7", "8", "9">>
    \o UPPERCASE \o LOWERCASE

\* the rank of each character in CHAR_ORDER
char_rank == [c \in Range(CHAR_ORDER) |-> IndexOf(CHAR_ORDER, c)]

RECURSIVE str_lt(_, _)
str_lt(a, b) ==
    IF b = <<>> THEN FALSE
    ELSE IF a = <<>> THEN TRUE
    ELSE IF Head(a) = Head(b) THEN str_lt(Tail(a), Tail(b))
    ELSE char_rank[Head(a)] < char_rank[Head(b)]

\* sorted(series.unique().tolist()) of a set of str
RECURSIVE sorted(_)
sorted(S) ==
    IF S = {} THEN <<>>
    ELSE LET m == CHOOSE x \in S : \A y \in S \ {x} : str_lt(x, y)
         IN  <<m>> \o sorted(S \ {m})

\* the values of df["POZO"] and df["ZONA"]
pozos_de(df) == {df.rows[i].POZO.s : i \in DOMAIN df.rows}

zonas_de(df) == {df.rows[i].ZONA.s : i \in DOMAIN df.rows}

\* data_store[k] = v
put(store, k, v) == (k :> v) @@ store

\* data_store.get(k, default)
get(store, k, default) == IF k \in DOMAIN store THEN store[k] ELSE default

\* pd.DataFrame.from_records(df.to_dict(orient='records')): a list of no
\* records makes a frame of no columns
from_records(df) == IF df.rows = <<>> THEN EmptyDF ELSE df

Response(ruta, status, redirect) ==
    [ruta |-> ruta, status |-> status, redirect |-> redirect]

\* celery_worker.py line 39: the preview as HTML, here the worksheet
\* positions of its rows in order
to_html(df) == [i \in DOMAIN df.rows |-> df.rows[i].row]

\* lines 336-357: POST /upload saves the file and queues the task
upload_file(wb) ==
    /\ assign_pc = "idle"
    /\ task' = [state |-> "PENDING", filepath |-> wb, result |-> [error |-> ""]]
    /\ respuesta' = Response("upload", 202, "")
    /\ UNCHANGED <<data_store, excelVars, assignVars>>

\* celery_worker.py line 36: process_excel of each file of the uploads
\* folder, for both outcomes of line 277 on an empty frame
resultados ==
    [name \in Uploads, empty_raises \in BOOLEAN |->
        process_excel(load_workbook(name), REGISTRY, empty_raises)]

\* celery_worker.py lines 26-47: the worker runs the task; a raise of
\* process_excel is the task's failure.  (Lines 50-54 of celery_worker.py are
\* a fragment left after the function, which does not parse; the task is
\* modelled as lines 26-47 define it.)
process_excel_task ==
    /\ task.state = "PENDING"
    /\ \E empty_raises \in BOOLEAN :
          LET r == resultados[task.filepath, empty_raises]
          IN  task' = IF r.error # ""
                      THEN [task EXCEPT !.state = "FAILURE", !.result = [error |-> r.error]]
                      ELSE [task EXCEPT !.state = "SUCCESS",
                                        !.result = [status |-> "completed",
                                                    preview |-> to_html(r.preview_df),
                                                    pozos_celestes |-> r.pozos_celestes,
                                                    data_records |-> r.df_merged]]
    /\ UNCHANGED <<data_store, respuesta, excelVars, assignVars>>

\* Variant of task_status: whatever is not PENDING or STARTED is read as a
\* success, result.get(...) giving its defaults on a failure
task_status_siempre ==
    /\ assign_pc = "idle"
    /\ IF task.state \in {"NONE", "PENDING", "STARTED"}
       THEN respuesta' = Response("status", 202, "") /\ UNCHANGED data_store
       ELSE /\ data_store' =
                 put(put(data_store, "pozos_celestes",
                         IF task.state = "SUCCESS" THEN task.result.pozos_celestes ELSE <<>>),
                     "df",
                     IF task.state = "SUCCESS" THEN from_records(task.result.data_records)
                     ELSE EmptyDF)
            /\ respuesta' = Response("status", IF task.state = "SUCCESS" THEN 200 ELSE 500, "")
    /\ UNCHANGED <<task, excelVars, assignVars>>

\* lines 363-395: GET /status/<task_id>; an id with no task reads PENDING
task_status ==
    /\ assign_pc = "idle"
    /\ IF task.state \in {"NONE", "PENDING", "STARTED"}
       THEN respuesta' = Response("status", 202, "") /\ UNCHANGED data_store
       ELSE IF task.state = "SUCCESS"
       THEN /\ data_store' =
                 put(put(data_store, "pozos_celestes", task.result.pozos_celestes),
                     "df", from_records(task.result.data_records))
            /\ respuesta' = Response("status", 200, "")
       ELSE respuesta' = Response("status", 500, "") /\ UNCHANGED data_store
    /\ UNCHANGED <<task, excelVars, assignVars>>

\* the largest number of units asked for in the filter form
MaxPulling == 2


\* lines 397-426: POST /filter with the zones ticked and the number of units
filter_zonas(zonas_seleccionadas, pulling_count) ==
    /\ assign_pc = "idle"
    /\ IF "df" \notin DOMAIN data_store
       THEN respuesta' = Response("filter", 302, "upload") /\ UNCHANGED data_store
       ELSE IF "ZONA" \notin Range(data_store["df"].columns)
       THEN respuesta' = Response("filter", 500, "") /\ UNCHANGED data_store
       ELSE IF zonas_seleccionadas = {}
       THEN respuesta' = Response("filter", 302, "filter") /\ UNCHANGED data_store
       ELSE LET df == data_store["df"]
                inZonas(r) == r.ZONA.s \in zonas_seleccionadas
                df_filtrado == [df EXCEPT !.rows = SelectSeq(df.rows, inZonas)]
            IN  /\ data_store' =
                     put(put(put(data_store, "df_filtrado", df_filtrado),
                             "pozos_disponibles", sorted(pozos_de(df_filtrado))),
                         "pulling_count", pulling_count)
                /\ respuesta' = Response("filter", 302, "select_pulling")
    /\ UNCHANGED <<task, excelVars, assignVars>>

\* the options the filter page offers: the zones of df
zonas_disponibles ==
    IF "df" \in DOMAIN data_store /\ "ZONA" \in Range(data_store["df"].columns)
    THEN zonas_de(data_store["df"]) ELSE {}

\* Variant of repetidos: the selection is never found to repeat a well
repetidos_never(seleccionados) == FALSE

\* line 460: len(seleccionados) != len(set(seleccionados))
repetidos(seleccionados) == Len(seleccionados) # Cardinality(Range(seleccionados))

\* lines 434-471: POST /select_pulling; form[i] is the value of pulling_pozo_i
select_pulling(form) ==
    /\ assign_pc = "idle"
    /\ IF "df_filtrado" \notin DOMAIN data_store
       THEN respuesta' = Response("select_pulling", 302, "filter") /\ UNCHANGED data_store
       ELSE LET df_filtrado == data_store["df_filtrado"]
                pulling_data == [i \in DOMAIN form |->
                                   [pulling |-> i, pozo |-> form[i], tiempo_restante |-> 0]]
                seleccionados == form
                todos_pozos == sorted(pozos_de(df_filtrado))
                libre(p) == p \notin Range(seleccionados)
            IN  IF repetidos(seleccionados)
                THEN /\ respuesta' = Response("select_pulling", 302, "select_pulling")
                     /\ UNCHANGED data_store
                ELSE /\ data_store' =
                          put(put(data_store, "pulling_data", pulling_data),
                              "pozos_disponibles", SelectSeq(todos_pozos, libre))
                     /\ respuesta' = Response("select_pulling", 302, "assign")
    /\ UNCHANGED <<task, excelVars, assignVars>>

\* the forms the select page can submit: one of its options for each of the
\* pulling_count units (none while there is no df_filtrado)
formularios ==
    IF "df_filtrado" \notin DOMAIN data_store THEN {<<>>}
    ELSE [1..get(data_store, "pulling_count", 3) ->
             pozos_de(data_store["df_filtrado"])]

\* lines 479-481: the well preselected for unit i, as a sequence of no well
\* (None) or of one
default_pozo(pozos_celestes_leidos, i) ==
    IF (i - 1) < Len(pozos_celestes_leidos) THEN <<pozos_celestes_leidos[i]>> ELSE <<>>

\* lines 441-445 and 475-498: the page of GET /select_pulling, for each unit
\* the options of its <select> and those that carry the attribute selected
form_html ==
    LET pozos_disponibles == sorted(pozos_de(data_store["df_filtrado"]))
        pulling_count == get(data_store, "pulling_count", 3)
        celestes == get(data_store, "celeste_pozos", <<>>)
    IN  [i \in 1..pulling_count |->
           [options |-> pozos_disponibles,
            selected |-> LET esDefault(pozo) == <<pozo>> = default_pozo(celestes, i)
                         IN  SelectSeq(pozos_disponibles, esDefault)]]

\* lines 434-445 and 473-500: GET /select_pulling renders form_html and
\* writes nothing
select_pulling_GET ==
    /\ assign_pc = "idle"
    /\ respuesta' = IF "df_filtrado" \notin DOMAIN data_store
                    THEN Response("select_pulling", 302, "filter")
                    ELSE Response("select_pulling", 200, "")
    /\ UNCHANGED <<data_store, task, excelVars, assignVars>>

-----------------------------------------------------------------------------
(* assign (lines 503-701): the three rounds and the priority matrix.       *)
(* A coefficient is the fraction <<numerator, denominator>>, denominator   *)
(* positive; a distance is a whole number of kilometres.                   *)

abs(x) == IF x < 0 THEN -x ELSE x

\* df[df["POZO"] == pozo]
registros(df, pozo) ==
    LET esPozo(r) == r.POZO.s = pozo
    IN  SelectSeq(df.rows, esPozo)

\* geodesic(p, q).kilometers of geopy, on the grid of the model: one tenth of
\* a degree in latitude or longitude is one kilometre
geodesic(a, b) ==
    abs(a.GEO_LATITUDE.n - b.GEO_LATITUDE.n) + abs(a.GEO_LONGITUDE.n - b.GEO_LONGITUDE.n)

frac(n, d) == IF d < 0 THEN <<-n, -d>> ELSE <<n, d>>

frac_lt(p, q) == p[1] * q[2] < q[1] * p[2]

frac_eq(p, q) == p[1] * q[2] = q[1] * p[2]

\* Variant of calcular_coeficiente: the whole distance in the denominator
calcular_coeficiente_full(df, pozo_ref, pozo_candidato) ==
    IF registros(df, pozo_ref) = <<>> \/ registros(df, pozo_candidato) = <<>>
    THEN [error |-> "IndexError", coef |-> <<0, 1>>, dist |-> 0]
    ELSE LET registro_cand == registros(df, pozo_candidato)[1]
             distancia == geodesic(registros(df, pozo_ref)[1], registro_cand)
             denominador == registro_cand.TIEMPO.n + distancia
         IN  [error |-> "",
              coef |-> IF denominador # 0 THEN frac(registro_cand.NETA.n, denominador)
                       ELSE <<0, 1>>,
              dist |-> distancia]

\* lines 519-534: [error, coef, dist]; .iloc[0] of an empty selection raises
\* IndexError, a planned time that is a str raises TypeError.  The
\* denominator tiempo_plan + 0.5 * distancia is held doubled.
calcular_coeficiente(df, pozo_ref, pozo_candidato) ==
    LET fallo(e) == [error |-> e, coef |-> <<0, 1>>, dist |-> 0]
    IN  IF registros(df, pozo_ref) = <<>> \/ registros(df, pozo_candidato) = <<>>
        THEN fallo("IndexError")
        ELSE LET registro_ref == registros(df, pozo_ref)[1]
                 registro_cand == registros(df, pozo_candidato)[1]
                 distancia == geodesic(registro_ref, registro_cand)
                 neta == registro_cand.NETA
                 tiempo_plan == registro_cand.TIEMPO
                 denominador2 == 2 * tiempo_plan.n + distancia
             IN  IF tiempo_plan.t \notin {"num", "bool"} \/ neta.t \notin {"num", "bool"}
                 THEN fallo("TypeError")
                 ELSE [error |-> "",
                       coef |-> IF denominador2 # 0 THEN frac(2 * neta.n, denominador2)
                                ELSE <<0, 1>>,
                       dist |-> distancia]

\* Variant of remove: the list is left as it is
remove_none(lista, x) == lista

\* list.remove(x): the list without its first x
remove(lista, x) ==
    IF \E i \in DOMAIN lista : lista[i] = x
    THEN LET k == CHOOSE i \in DOMAIN lista :
                     lista[i] = x /\ \A j \in 1..(i - 1) : lista[j] # x
         IN  SubSeq(lista, 1, k - 1) \o SubSeq(lista, k + 1, Len(lista))
    ELSE lista

\* Variant of antes: the key is -coef alone, ties keep the order of the pool
antes_coef(a, b) == frac_lt(b.coef, a.coef)

\* line 550: the key (-coef, dist) puts a before b
antes(a, b) ==
    \/ frac_lt(b.coef, a.coef)
    \/ (frac_eq(a.coef, b.coef) /\ a.dist < b.dist)

\* line 550: list.sort is stable
RECURSIVE ordenar(_)
ordenar(cs) ==
    IF cs = <<>> THEN <<>>
    ELSE LET first == CHOOSE i \in DOMAIN cs :
                         \A j \in DOMAIN cs \ {i} :
                            antes(cs[i], cs[j]) \/ (~antes(cs[j], cs[i]) /\ i < j)
         IN  <<cs[first]>>
             \o ordenar(SubSeq(cs, 1, first - 1) \o SubSeq(cs, first + 1, Len(cs)))

\* lines 565-567: the rounds N+1, N+2, N+3
NIVELES == 3

\* line 584
centinela == [pozo |-> <<"N","/","A">>, coef |-> <<1, 1>>, dist |-> 1]

\* lines 595-601
get_neta(df, pozo) ==
    IF pozo = <<"N","/","A">> THEN 0
    ELSE IF registros(df, pozo) # <<>> THEN registros(df, pozo)[1].NETA.n
    ELSE 0

\* Variant of seleccionados_de: the padding comes before the claims
seleccionados_de_shifted(hist) ==
    [k \in 1..3 |-> IF k > 3 - Len(hist) THEN hist[k - (3 - Len(hist))] ELSE centinela]

\* lines 581-584: the first three claims of a unit, padded to three
seleccionados_de(hist) ==
    [k \in 1..3 |-> IF k <= Len(hist) THEN hist[k] ELSE centinela]

\* lines 574-653: the row of one unit
fila(df, pdata, hist) ==
    [pulling |-> pdata.pulling,
     pozo_actual |-> pdata.pozo,
     neta_actual |-> registros(df, pdata.pozo)[1].NETA.n,
     tiempo_restante |-> pdata.tiempo_restante,
     slots |-> [k \in 1..3 |->
                  [pozo |-> seleccionados_de(hist)[k].pozo,
                   neta |-> get_neta(df, seleccionados_de(hist)[k].pozo),
                   coef |-> seleccionados_de(hist)[k].coef,
                   dist |-> seleccionados_de(hist)[k].dist]]]

\* Variant of items: the units in the reverse of their order of insertion
items_reversed(pulling_data) ==
    [i \in DOMAIN pulling_data |-> pulling_data[Len(pulling_data) + 1 - i]]

\* line 513: list(pulling_data.items()); a dict keeps its keys in the order
\* they were inserted, "Pulling 1" first
items(pulling_data) == list(pulling_data)

\* the locals of assign outside a run
AssignReset ==
    /\ pulling_lista' = <<>>
    /\ pozos_ocupados' = {}
    /\ no_asignados' = <<>>
    /\ pulling_asignaciones' = <<>>
    /\ nivel' = 0
    /\ turno' = 0
    /\ pozo_referencia' = <<>>
    /\ candidatos' = <<>>
    /\ flashes' = <<>>
    /\ matriz_prioridad' = <<>>
    /\ eventos' = <<>>

\* Variant of assign: the run starts whether or not pulling_data is stored
assign_sin_guarda ==
    /\ assign_pc = "idle"
    /\ assign_pc' = "ronda"
    /\ pulling_lista' = items(get(data_store, "pulling_data", <<>>))
    /\ pozos_ocupados' = {}
    /\ pulling_asignaciones' = [i \in DOMAIN get(data_store, "pulling_data", <<>>) |-> <<>>]
    /\ nivel' = 1
    /\ respuesta' = Response("assign", 0, "")
    /\ UNCHANGED <<no_asignados, turno, pozo_referencia, candidatos,
                   flashes, matriz_prioridad, eventos>>
    /\ UNCHANGED <<data_store, task, excelVars>>

\* lines 503-514 and 564: GET /assign
assign ==
    /\ assign_pc = "idle"
    /\ IF "pulling_data" \notin DOMAIN data_store
       THEN /\ respuesta' = Response("assign", 302, "select_pulling")
            /\ UNCHANGED assignVars
       ELSE /\ assign_pc' = "ronda"
            /\ pulling_lista' = items(data_store["pulling_data"])
            /\ pozos_ocupados' = {}
            /\ pulling_asignaciones' = [i \in DOMAIN data_store["pulling_data"] |-> <<>>]
            /\ nivel' = 1
            /\ respuesta' = Response("assign", 0, "")
            /\ UNCHANGED <<no_asignados, turno, pozo_referencia, candidatos,
                           flashes, matriz_prioridad, eventos>>
    /\ UNCHANGED <<data_store, task, excelVars>>

\* Variant of siguiente_nivel: the matrix follows the first round
siguiente_nivel_una ==
    assign_pc' = "matriz" /\ UNCHANGED nivel

\* the round after nivel, or the matrix after the last round
siguiente_nivel ==
    IF nivel < NIVELES
    THEN assign_pc' = "ronda" /\ nivel' = nivel + 1
    ELSE assign_pc' = "matriz" /\ UNCHANGED nivel

\* line 541: a call of asignar_pozos starts from the wells not yet claimed
asignar_pozos ==
    /\ assign_pc = "ronda"
    /\ no_asignados' =
          LET libre(p) == p \notin pozos_ocupados
          IN  SelectSeq(data_store["pozos_disponibles"], libre)
    /\ turno' = 1
    /\ assign_pc' = "turno"
    /\ UNCHANGED <<pulling_lista, pozos_ocupados, pulling_asignaciones, nivel,
                   pozo_referencia, candidatos, flashes, matriz_prioridad, eventos,
                   storeVars, excelVars>>

\* Variant of flash: the message is dropped
flash_none(mensajes, m) == mensajes

\* line 558: flash(message) inside the request of assign appends the message
\* to the messages of the session
flash(mensajes, m) == Append(mensajes, m)

\* lines 542-558: the turn of the unit at position turno of pulling_lista
turno_pulling ==
    /\ assign_pc = "turno"
    /\ LET pdata == pulling_lista[turno]
           hist == pulling_asignaciones[turno]
           ref == IF hist # <<>> THEN hist[Len(hist)].pozo ELSE pdata.pozo
           calc == list([i \in DOMAIN no_asignados |->
                           calcular_coeficiente(data_store["df"], ref, no_asignados[i])])
           ranked == ordenar(list([i \in DOMAIN no_asignados |->
                                     [pozo |-> no_asignados[i], coef |-> calc[i].coef,
                                      dist |-> calc[i].dist]]))
       IN  IF \E i \in DOMAIN calc : calc[i].error # ""
           THEN /\ assign_pc' = "error"
                /\ respuesta' = Response("assign", 500, "")
                /\ UNCHANGED <<pulling_lista, pozos_ocupados, no_asignados,
                               pulling_asignaciones, nivel, turno, pozo_referencia,
                               candidatos, flashes, matriz_prioridad, eventos>>
           ELSE /\ pozo_referencia' = ref
                /\ candidatos' = ranked
                /\ IF ranked # <<>>
                   THEN /\ pulling_asignaciones' =
                             [pulling_asignaciones EXCEPT ![turno] = Append(@, ranked[1])]
                        /\ pozos_ocupados' = pozos_ocupados \cup {ranked[1].pozo}
                        /\ no_asignados' = remove(no_asignados, ranked[1].pozo)
                        /\ eventos' = Append(eventos, [nivel |-> nivel,
                                                       pulling |-> pdata.pulling,
                                                       pozo |-> ranked[1].pozo])
                        /\ UNCHANGED flashes
                   ELSE /\ flashes' = flash(flashes, <<nivel, turno>>)
                        /\ UNCHANGED <<pulling_asignaciones, pozos_ocupados, no_asignados,
                                       eventos>>
                /\ IF turno < Len(pulling_lista)
                   THEN turno' = turno + 1 /\ UNCHANGED <<assign_pc, nivel>>
                   ELSE siguiente_nivel /\ UNCHANGED turno
                /\ UNCHANGED <<pulling_lista, matriz_prioridad, respuesta>>
    /\ UNCHANGED <<data_store, task, excelVars>>

\* lines 572-701: one row per unit, then the rendered table
construir_matriz ==
    /\ assign_pc = "matriz"
    /\ IF \E i \in DOMAIN pulling_lista :
             registros(data_store["df"], pulling_lista[i].pozo) = <<>>
       THEN /\ assign_pc' = "error"
            /\ respuesta' = Response("assign", 500, "")
            /\ UNCHANGED matriz_prioridad
       ELSE /\ matriz_prioridad' =
                 [i \in DOMAIN pulling_lista |->
                    fila(data_store["df"], pulling_lista[i], pulling_asignaciones[i])]
            /\ assign_pc' = "done"
            /\ respuesta' = Response("assign", 200, "")
    /\ UNCHANGED <<pulling_lista, pozos_ocupados, no_asignados, pulling_asignaciones,
                   nivel, turno, pozo_referencia, candidatos, flashes, eventos,
                   data_store, task, excelVars>>

\* the request of assign is answered: its locals are gone
assign_return ==
    /\ assign_pc \in {"done", "error"}
    /\ assign_pc' = "idle"
    /\ AssignReset
    /\ UNCHANGED <<storeVars, excelVars>>

Init == ExcelIdle /\ WebIdle

Next ==
    \/ \E wb \in Uploads : upload_file(wb)
    \/ process_excel_task
    \/ task_status
    \/ \E zs \in SUBSET zonas_disponibles, n \in 1..MaxPulling : filter_zonas(zs, n)
    \/ select_pulling_GET
    \/ \E form \in formularios : select_pulling(form)
    \/ assign
    \/ asignar_pozos
    \/ turno_pulling
    \/ construir_matriz
    \/ assign_return

\* the web application: uploads, polls, filters, selections and assignments
Spec == Init /\ [][Next]_vars


-----------------------------------------------------------------------------
(* Properties of the assignment run, checked under Spec.                   *)

\* the starting wells of the units of the run
pozos_iniciales == {pulling_lista[i].pozo : i \in DOMAIN pulling_lista}

\* the wells a turn of the run in progress can still claim
pozos_libres ==
    {p \in Range(data_store["pozos_disponibles"]) : p \notin pozos_ocupados}

\* C1: in one assignment run no well is claimed by more than one unit: any
\* two claims of the run, of two units in one round or of any units in two
\* rounds, are of different wells.
C1_NoWellClaimedTwice ==
    /\ \A a, b \in DOMAIN eventos : a # b => eventos[a].pozo # eventos[b].pozo
    /\ \A i, j \in DOMAIN pulling_asignaciones :
          \A k \in DOMAIN pulling_asignaciones[i], l \in DOMAIN pulling_asignaciones[j] :
             (i # j \/ k # l)
                => pulling_asignaciones[i][k].pozo # pulling_asignaciones[j][l].pozo

\* a run of two units has claimed in the first round and in the second
C1_Witness ==
    /\ assign_pc = "matriz"
    /\ Len(pulling_lista) = 2
    /\ \E a, b \in DOMAIN eventos : eventos[a].nivel = 1 /\ eventos[b].nivel = 2
    /\ \E a, b \in DOMAIN eventos :
          eventos[a].nivel = eventos[b].nivel /\ eventos[a].pulling # eventos[b].pulling

\* the two units of Campo on the pad of A1 and A2, with A3 (coefficient 9 at
\* 4 km), B7 (coefficient 9 at 2 km) and C5 (coefficient 5) to claim
C2_Escenario ==
    LET A1 == <<"A","1">>
        A2 == <<"A","2">>
        A3 == <<"A","3">>
        B7 == <<"B","7">>
        C5 == <<"C","5">>
        coef(r, p) == calcular_coeficiente(data_store["df"], r, p)
    IN  /\ assign_pc \in {"ronda", "turno", "matriz", "done"}
        /\ Len(pulling_lista) = 2
        /\ pulling_lista[1].pozo = A1
        /\ pulling_lista[2].pozo = A2
        /\ data_store["pozos_disponibles"] = <<A3, B7, C5>>
        /\ \A r \in {A1, A2} :
              /\ coef(r, A3).error = "" /\ coef(r, B7).error = "" /\ coef(r, C5).error = ""
              /\ frac_eq(coef(r, A3).coef, <<9, 1>>)
              /\ frac_eq(coef(r, B7).coef, <<9, 1>>)
              /\ frac_eq(coef(r, C5).coef, <<5, 1>>)
              /\ coef(r, B7).dist < coef(r, A3).dist

\* C2: the well a unit claims in its turn has, among the wells unclaimed at
\* that moment, the highest coefficient, and among those of the highest
\* coefficient the smallest distance to the unit's reference well; in the
\* scenario of two units on one pad with W1 (9), W2 (9, closer) and W3 (5),
\* the first unit claims W2 and the second then claims W1.
C2_BestCandidateClaimed ==
    /\ candidatos # <<>> =>
          LET claim == eventos[Len(eventos)]
              won == CHOOSE c \in Range(candidatos) : c.pozo = claim.pozo
          IN  /\ \E c \in Range(candidatos) : c.pozo = claim.pozo
              /\ {c.pozo : c \in Range(candidatos)} = pozos_libres \cup {claim.pozo}
              /\ \A c \in Range(candidatos) :
                    /\ ~frac_lt(won.coef, c.coef)
                    /\ frac_eq(won.coef, c.coef) => won.dist <= c.dist
    /\ C2_Escenario =>
          /\ Len(eventos) >= 1 =>
                eventos[1] = [nivel |-> 1, pulling |-> 1, pozo |-> <<"B","7">>]
          /\ Len(eventos) >= 2 =>
                eventos[2] = [nivel |-> 1, pulling |-> 2, pozo |-> <<"A","3">>]

\* both units of the scenario have claimed, out of a tie of coefficients
C2_Witness ==
    /\ C2_Escenario
    /\ Len(eventos) = 2
    /\ Len(candidatos) = 2

\* C3: the units take their turns one at a time in their input order, and a
\* round is over for every unit before the next round starts: the claims of
\* a run are in order of round, and within a round in order of unit.
C3_ClaimsByRoundThenUnit ==
    /\ \A a, b \in DOMAIN eventos :
          a < b => \/ eventos[a].nivel < eventos[b].nivel
                   \/ /\ eventos[a].nivel = eventos[b].nivel
                      /\ eventos[a].pulling < eventos[b].pulling
    /\ \A i \in DOMAIN pulling_lista : pulling_lista[i].pulling = i
    /\ assign_pc = "turno" => turno \in DOMAIN pulling_lista /\ nivel \in 1..NIVELES

\* the first unit claims in round two after the second claimed in round one
C3_Witness ==
    /\ Len(pulling_lista) = 2
    /\ Len(eventos) >= 3
    /\ eventos[2].pulling = 2 /\ eventos[2].nivel = 1
    /\ eventos[3].pulling = 1 /\ eventos[3].nivel = 2

\* C4 as claimed: a slot of the matrix that no claim filled holds "N/A", net
\* output 0, coefficient 0 and distance 0.  Line 584 pads the row with
\* ("N/A", 1, 1), so the slot shows coefficient 1 and distance 1.
C4_SentinelIsZero ==
    assign_pc = "done" =>
        \A i \in DOMAIN matriz_prioridad :
            \A k \in 1..3 :
                k > Len(pulling_asignaciones[i]) =>
                    /\ matriz_prioridad[i].slots[k].pozo = <<"N","/","A">>
                    /\ matriz_prioridad[i].slots[k].neta = 0
                    /\ matriz_prioridad[i].slots[k].coef[1] = 0
                    /\ matriz_prioridad[i].slots[k].dist = 0

\* C5 as claimed: a started run ends with the matrix, one row of three slots
\* for each unit, and never with an error.  A run over a df that a later
\* upload replaced raises IndexError at line 524.
C5_RunCompletes ==
    /\ assign_pc # "error"
    /\ assign_pc = "done" =>
          /\ Len(matriz_prioridad) = Len(pulling_lista)
          /\ \A i \in DOMAIN matriz_prioridad : DOMAIN matriz_prioridad[i].slots = 1..3

\* C6 as claimed: the wells a run can claim include no starting well of a
\* unit, and no claim is of a starting well.  filter_zonas resets
\* pozos_disponibles to every well of the zones and leaves pulling_data.
C6_PoolExcludesStartingWells ==
    assign_pc \in {"ronda", "turno", "matriz", "done"} =>
        /\ pozos_libres \cap pozos_iniciales = {}
        /\ \A a \in DOMAIN eventos : eventos[a].pozo \notin pozos_iniciales

\* the starting wells in data_store["pulling_data"] are pairwise distinct
C7_Distinct ==
    "pulling_data" \in DOMAIN data_store =>
        \A i, j \in DOMAIN data_store["pulling_data"] :
            i # j => data_store["pulling_data"][i].pozo # data_store["pulling_data"][j].pozo

\* C7: a submission of select_pulling that names one well for two units
\* changes nothing in data_store and redirects back to the selection page,
\* not to assign (a step of select_pulling that does anything else is the
\* step of no such submission); so the starting wells stored are always
\* pairwise distinct.
C7_DuplicateSelectionRejected ==
    /\ [][(respuesta'.ruta = "select_pulling" /\ task' = task /\ assign_pc' = assign_pc)
             => \/ /\ data_store' = data_store
                   /\ respuesta'.redirect = "select_pulling"
                   /\ assign_pc' = "idle"
                \/ \A form \in formularios :
                      (Cardinality(Range(form)) < Len(form))
                         => ~select_pulling(form)]_vars
    /\ []C7_Distinct

\* a duplicate submission was turned down after a selection had been stored
C7_Witness ==
    /\ respuesta = Response("select_pulling", 302, "select_pulling")
    /\ "pulling_data" \in DOMAIN data_store
    /\ Len(data_store["pulling_data"]) = 2

\* twice the denominator of a candidate: 2 * (planned time + 0.5 * distance)
C8_Denominador2(c) ==
    LET ref == registros(data_store["df"], pozo_referencia)[1]
        cand == registros(data_store["df"], c.pozo)[1]
    IN  2 * cand.TIEMPO.n
        + abs(ref.GEO_LATITUDE.n - cand.GEO_LATITUDE.n)
        + abs(ref.GEO_LONGITUDE.n - cand.GEO_LONGITUDE.n)

\* C8: the coefficient of every candidate of a turn is its net output over
\* planned time + 0.5 * distance to the reference well, and is 0, with no
\* error raised, when that denominator is 0.
C8_Coefficient ==
    \A c \in Range(candidatos) :
        LET cand == registros(data_store["df"], c.pozo)[1]
        IN  /\ c.coef[2] > 0
            /\ c.dist = C8_Denominador2(c) - 2 * cand.TIEMPO.n
            /\ IF C8_Denominador2(c) = 0 THEN c.coef[1] = 0
               ELSE c.coef[1] * C8_Denominador2(c) = 2 * cand.NETA.n * c.coef[2]

\* a turn ranked a candidate of denominator 0
C8_Witness ==
    /\ assign_pc # "error"
    /\ \E c \in Range(candidatos) : C8_Denominador2(c) = 0 /\ c.coef[1] = 0

-----------------------------------------------------------------------------
(* Properties of process_excel, checked under SpecExcel.                   *)

\* the worksheet rows of a frame of the pipeline
filas_de(df) == {df.rows[k].row : k \in DOMAIN df.rows}

\* row i of the worksheet has its remarks cell filled FFFF0000
C9_Red(i) ==
    /\ observaciones_idx(file_path) # 0
    /\ file_path.rows[i][observaciones_idx(file_path)].fill.rgb
          \in {"FFFF0000", "ffff0000"}

\* C9: a worksheet row whose remarks cell is filled FFFF0000 is in no output
\* of process_excel: not in the preview, not in the final dataset, and no
\* highlighted well is highlighted on its account.
C9_RedRowsInNoOutput ==
    /\ \A i \in DOMAIN file_path.rows :
          C9_Red(i) => /\ i \notin filas_de(preview_df)
                       /\ i \notin filas_de(df_main)
                       /\ i \notin filas_de(df_merged)
    /\ \A p \in Range(pozos_celestes) :
          \E k \in DOMAIN df_main.rows :
             /\ df_main.rows[k].CELESTE
             /\ val(df_main, df_main.rows[k], "POZO").s = p
             /\ ~C9_Red(df_main.rows[k].row)

\* a run ended with outputs over a worksheet with a red row on a cyan well
C9_Witness ==
    /\ excel_pc = "done"
    /\ \E i \in DOMAIN file_path.rows :
          C9_Red(i) /\ is_celeste(file_path, file_path.rows[i])
    /\ preview_df.rows # <<>>
    /\ df_merged.rows # <<>>
    /\ pozos_celestes # <<>>

\* the plan value of row i of the worksheet
C10_Plan(i) ==
    LET c == CHOOSE k \in DOMAIN file_path.header :
                col_map(file_path)[k].s = <<"p","l","a","n"," ","[","s","i","/","n","o","]">>
    IN  file_path.rows[i][c].value

\* C10: a worksheet row whose plan value is not the number 1 is not in the
\* records left by the plan filter nor in the final dataset.
C10_PlanFilter ==
    \A i \in DOMAIN file_path.rows :
        ~(C10_Plan(i).t \in {"num", "bool"} /\ C10_Plan(i).n = 1) =>
            /\ excel_pc \in {"plan_filtered", "filtered", "reconciled", "done"}
                  => i \notin filas_de(df_main)
            /\ i \notin filas_de(df_merged)

\* a run ended with a dataset over a worksheet with a row of plan "1", a str
C10_Witness ==
    /\ excel_pc = "done"
    /\ \E i \in DOMAIN file_path.rows :
          ~(C10_Plan(i).t \in {"num", "bool"} /\ C10_Plan(i).n = 1)
    /\ \E i \in DOMAIN file_path.rows : C10_Plan(i).t = "str"
    /\ df_merged.rows # <<>>

\* C11 as claimed: every record left by the critical-field filter has, in
\* each of zone, well id, X, Y, loss, plan flag, planned time and equipment,
\* a value that is not null, not empty and not the number 0.  Lines 238-239
\* test notnull() and != 0 only, and the empty str passes both.
C11_CriticalFieldsPresent ==
    excel_pc = "filtered" =>
        \A k \in DOMAIN df_main.rows :
            \A c \in DOMAIN cols_criticas :
                /\ has_col(df_main, cols_criticas[c])
                /\ notnull(val(df_main, df_main.rows[k], cols_criticas[c]))
                /\ val(df_main, df_main.rows[k], cols_criticas[c]) # Str(<<>>)
                /\ ~num_eq(val(df_main, df_main.rows[k], cols_criticas[c]), 0)

\* C12 as claimed: reconciliation is idempotent: the records left by the
\* reconciliation stage, reconciled again against the same registry, are the
\* same records with the same identifiers.  custom_normalize_pozo returns
\* the candidate stripped (line 109), and a second pass matches it exactly to
\* the registry's padded spelling.
C12_ReconcileIdempotent ==
    excel_pc = "reconciled" => reconcile(df_main, df_coords).rows = df_main.rows

\* C13 as claimed: no two records of the dataset process_excel returns have
\* the same POZO.  No stage merges the rows of one well: two worksheet rows
\* of a well that pass the filters are two records of the dataset.
C13_OneRecordPerWell ==
    excel_pc = "done" =>
        \A i, j \in DOMAIN df_merged.rows :
            i # j => df_merged.rows[i].POZO # df_merged.rows[j].POZO

\* the worksheet rows of the reconciled records whose registry join yields a
\* latitude and a longitude
C14_ConCoordenadas ==
    {m.data.row : m \in {x \in Range(geo_merge(df_main, df_coords)) : has_coords(x)}}

\* C14 as claimed: once the registry join has run, the final dataset is made
\* of exactly the reconciled records whose join yields both coordinates:
\* every record of it has both, and every such record is in it.  With a
\* record that lacks coordinates flash (line 298) raises in the worker, and
\* the records that have them are in no dataset.
C14_ExactlyTheLocated ==
    (excel_pc = "done" \/ (excel_pc = "failed" /\ missing_pozos # <<>>)) =>
        /\ \A k \in DOMAIN df_merged.rows :
              /\ notnull(df_merged.rows[k].GEO_LATITUDE)
              /\ notnull(df_merged.rows[k].GEO_LONGITUDE)
        /\ filas_de(df_merged) = C14_ConCoordenadas

\* C15 as claimed: a record whose identifier has no coordinates in the
\* registry does not abort the run: the run returns, the dataset holds the
\* records that have coordinates and not that one, and the identifier is in
\* the missing-identifiers report.  The report is made with flash (line 298),
\* which raises RuntimeError in the Celery worker: the run aborts.
C15_MissingDoesNotAbort ==
    missing_pozos # <<>> =>
        /\ excel_pc = "done"
        /\ \A m \in Range(geo_merge(df_main, df_coords)) :
              IF has_coords(m) THEN m.data.row \in filas_de(df_merged)
              ELSE /\ m.data.row \notin filas_de(df_merged)
                   /\ val(df_main, m.data, "POZO").s \in Range(missing_pozos)

-----------------------------------------------------------------------------
(* Properties of the upload and its task, checked under Spec.              *)

\* the task of a workbook with no sheet named dataset has ended: it failed,
\* and its result is the error alone
C16_SinHojaFalla ==
    (task.filepath = "SinHoja" /\ task.state \notin {"NONE", "PENDING"}) =>
        /\ task.state = "FAILURE"
        /\ task.result = [error |-> "ValueError"]
        /\ \A b \in BOOLEAN : resultados["SinHoja", b] = failed("ValueError")

\* C16: the run over a workbook with no sheet named dataset fails with an
\* error and yields no dataset, preview or highlighted list; a poll of the
\* failed task answers 500, and a poll that answers anything but 200 (the
\* task failed, or is PENDING or STARTED) leaves data_store as it was.
C16_NoSheetFailsStoreKept ==
    /\ [][/\ (respuesta'.ruta = "status" /\ respuesta'.status # 200)
                => data_store' = data_store
          /\ (task.state = "FAILURE" /\ respuesta'.ruta = "status")
                => respuesta'.status = 500]_vars
    /\ []C16_SinHojaFalla

\* the task of a workbook without the sheet failed and was polled, with the
\* dataset of an earlier upload in data_store
C16_Witness ==
    /\ task.filepath = "SinHoja"
    /\ task.state = "FAILURE"
    /\ respuesta = Response("status", 500, "")
    /\ "df" \in DOMAIN data_store
    /\ data_store["df"].rows # <<>>
    /\ data_store["pozos_celestes"] # <<>>

-----------------------------------------------------------------------------
(* Properties of the later stages of process_excel, checked under          *)
(* SpecExcel.                                                              *)

\* C17 as claimed: the reconciliation stage leaves the records it was given,
\* in the same number and order, each with every field but POZO unchanged.
\* The exact match is a left merge on POZO_TMP (lines 263-269): a record
\* whose identifier matches two registry entries comes out twice.
C17_ReconcileKeepsRecords ==
    [][(excel_pc = "filtered" /\ excel_pc' = "reconciled") =>
          /\ df_main'.columns = df_main.columns
          /\ Len(df_main'.rows) = Len(df_main.rows)
          /\ \A k \in DOMAIN df_main.rows :
                /\ df_main'.rows[k].row = df_main.rows[k].row
                /\ df_main'.rows[k].CELESTE = df_main.rows[k].CELESTE
                /\ \A c \in DOMAIN df_main.rows[k].v :
                      c # col_idx(df_main, "POZO")
                         => df_main'.rows[k].v[c] = df_main.rows[k].v[c]]_vars

\* the identifier cell of worksheet row i
C18_Original(i) == file_path.rows[i][pozo_idx(file_path)].value

\* no registry identifier equals orig once both are trimmed and upper-cased
C18_SinExacto(orig) ==
    \A e \in Range(df_coords) : pozo_tmp(e.POZO) # pozo_tmp(orig)

\* the registry identifiers, trimmed, whose first digit run is that of orig
C18_Candidatos(orig) ==
    {c \in {strip(e.POZO.s) : e \in Range(df_coords)} :
        /\ extract_number(strip(orig.s)) # <<>>
        /\ extract_number(c) = extract_number(strip(orig.s))}

\* the letter-similarity ratio of orig and a candidate
C18_Ratio(orig, c) == ratio(extract_letters(strip(orig.s)), extract_letters(c))

\* the rule of custom_normalize_pozo on the records of the reconciled frame
\* that had no exact match, an identifier left alone being returned trimmed
\* (recortado) or as it was
C18_Regla(recortado) ==
    excel_pc = "reconciled" =>
        \A k \in DOMAIN df_main.rows :
            LET orig == C18_Original(df_main.rows[k].row)
                dejado == IF recortado THEN Str(strip(orig.s)) ELSE orig
                nuevo == val(df_main, df_main.rows[k], "POZO")
                cands == C18_Candidatos(orig)
            IN  (orig.t = "str" /\ C18_SinExacto(orig)) =>
                    IF cands = {} THEN nuevo = dejado
                    ELSE IF Cardinality(cands) = 1 THEN nuevo.s \in cands
                    ELSE IF \E c \in cands : 2 * C18_Ratio(orig, c)[1] >= C18_Ratio(orig, c)[2]
                    THEN /\ nuevo.s \in cands
                         /\ \A c \in cands :
                               ~ratio_gt(C18_Ratio(orig, c), C18_Ratio(orig, nuevo.s))
                    ELSE nuevo = dejado

C19_Filas(df) == [k \in DOMAIN df.rows |-> df.rows[k].row]

\* the loss of each worksheet row as line 228 reads it
C19_Perdidas ==
    LET c == CHOOSE k \in DOMAIN file_path.header :
                col_map(file_path)[k].s
                   = <<"p","e","r","d","i","d","a"," ","[","m","3","/","d","]">>
    IN  list([i \in DOMAIN file_path.rows |-> to_numeric(file_path.rows[i][c].value)])

\* with losses p, row i is not after row j in the order of line 229: a
\* higher loss first, the rows with no numeric loss last
C19_NoDespues(p, i, j) ==
    \/ p[j].t # "num"
    \/ (p[i].t = "num" /\ p[i].n >= p[j].n)

\* the preview has been taken
C19_Tomado == excel_pc \in {"previewed", "plan_filtered", "filtered", "reconciled", "done"}

\* C19, amended: the preview is the first 20 of the ingested rows in order
\* of decreasing loss (all of them when there are fewer), taken after the
\* sort by loss and before the filters, the reconciliation and the registry
\* join, none of which changes it: it holds the identifiers as the
\* worksheet has them.
C19_PreviewByLoss ==
    C19_Tomado =>
        LET ingresadas == Range(C19_Filas(ingest(file_path)))
            vistas == list(C19_Filas(preview_df))
            p == C19_Perdidas
        IN  /\ Range(vistas) \subseteq ingresadas
            /\ \A a, b \in DOMAIN vistas :
                  a < b => vistas[a] # vistas[b] /\ C19_NoDespues(p, vistas[a], vistas[b])
            /\ Len(vistas) = IF Cardinality(ingresadas) < PREVIEW_ROWS
                             THEN Cardinality(ingresadas) ELSE PREVIEW_ROWS
            /\ \A i \in ingresadas \ Range(vistas) :
                  \A a \in DOMAIN vistas : C19_NoDespues(p, vistas[a], i)
            /\ \A k \in DOMAIN preview_df.rows :
                  val(preview_df, preview_df.rows[k], "POZO")
                     = C18_Original(preview_df.rows[k].row)

\* C19 as claimed: the preview is the first 20 ingested rows in the order
\* of the worksheet.  Line 229 sorts the frame by loss before line 230 takes
\* the preview.
C19_PreviewInSheetOrder ==
    C19_Tomado =>
        C19_Filas(preview_df) = C19_Filas(head(ingest(file_path), PREVIEW_ROWS))

\* a run ended over a worksheet longer than the preview: the preview starts
\* at the row of highest loss, the last of the worksheet, and lacks the first
C19_Witness ==
    /\ excel_pc = "done"
    /\ Len(file_path.rows) > PREVIEW_ROWS
    /\ Len(preview_df.rows) = PREVIEW_ROWS
    /\ preview_df.rows[1].row = Len(file_path.rows)
    /\ \A k \in DOMAIN preview_df.rows : preview_df.rows[k].row # 1
    /\ df_merged.rows # <<>>

-----------------------------------------------------------------------------
(* Properties of the turns of the assignment run, checked under Spec.      *)

\* the positions in eventos of the claims of the unit on turn
C20_Propios == {a \in DOMAIN eventos : eventos[a].pulling = pulling_lista[turno].pulling}

\* in a turn the reference well is the last well the unit on turn claimed,
\* in an earlier round, or its starting well if it has claimed none
C20_OwnLastClaim ==
    [][(assign_pc = "turno" /\ task' = task /\ assign_pc' # "error") =>
          IF C20_Propios = {} THEN pozo_referencia' = pulling_lista[turno].pozo
          ELSE LET ultimo == CHOOSE a \in C20_Propios : \A b \in C20_Propios : b <= a
               IN  /\ pozo_referencia' = eventos[ultimo].pozo
                   /\ eventos[ultimo].nivel < nivel]_vars

\* C20 as claimed: in a turn the reference well is the unit's own last claim
\* or its starting well, and never a well that another unit claimed.  After a
\* second POST /filter the pool holds the starting wells (lines 421-422), and
\* a unit's starting well can be claimed by the unit before it.
C20_ReferenceNeverAnothersClaim ==
    /\ C20_OwnLastClaim
    /\ [][(assign_pc = "turno" /\ task' = task /\ assign_pc' # "error") =>
             \A a \in DOMAIN eventos :
                eventos[a].pulling # pulling_lista[turno].pulling
                   => eventos[a].pozo # pozo_referencia']_vars

-----------------------------------------------------------------------------
(* Properties of the warnings and of the histories of the assignment run,  *)
(* checked under Spec.                                                     *)

\* the (round, unit) pairs whose turn of the run has been taken
C21_Procesados ==
    {<<n, u>> \in (1..NIVELES) \X DOMAIN pulling_lista :
        CASE assign_pc = "turno" -> n < nivel \/ (n = nivel /\ u < turno)
          [] assign_pc = "ronda" -> n < nivel
          [] OTHER -> n <= nivel}

\* the (round, unit) pairs of the claims of the run
C21_Reclamos ==
    {<<n, u>> \in (1..NIVELES) \X DOMAIN pulling_lista :
        \E a \in DOMAIN eventos :
           eventos[a].nivel = n /\ eventos[a].pulling = pulling_lista[u].pulling}

\* C21: a warning naming the unit and the round is emitted for a (unit,
\* round) pair exactly when no unclaimed well remains at that unit's turn in
\* that round; it does not stop the run: the turn after it is taken as after
\* a claim, and at the end of the run every (round, unit) pair has had its
\* turn, with either a claim or a warning.
C21_WarningIffPoolEmpty ==
    /\ [][(assign_pc = "turno" /\ task' = task /\ assign_pc' # "error") =>
             /\ IF pozos_libres = {}
                THEN flashes' = Append(flashes, <<nivel, turno>>) /\ eventos' = eventos
                ELSE flashes' = flashes /\ Len(eventos') = Len(eventos) + 1
             /\ IF turno < Len(pulling_lista)
                THEN assign_pc' = "turno" /\ turno' = turno + 1 /\ nivel' = nivel
                ELSE IF nivel < NIVELES
                THEN assign_pc' = "ronda" /\ nivel' = nivel + 1
                ELSE assign_pc' = "matriz"]_vars
    /\ [](assign_pc \in {"ronda", "turno", "matriz", "done"} =>
             /\ \A a, b \in DOMAIN flashes : a # b => flashes[a] # flashes[b]
             /\ Range(flashes) \cup C21_Reclamos = C21_Procesados
             /\ Range(flashes) \cap C21_Reclamos = {})
    /\ [](assign_pc \in {"matriz", "done"} =>
             C21_Procesados = (1..NIVELES) \X DOMAIN pulling_lista)

\* a finished run of two units in which a warning was emitted for the first
\* unit in a round, then one for the second unit, then others in a later round
C21_Witness ==
    /\ assign_pc = "done"
    /\ Len(pulling_lista) = 2
    /\ eventos # <<>>
    /\ \E a, b, c \in DOMAIN flashes :
          /\ a < b /\ b < c
          /\ flashes[a][2] = 1 /\ flashes[b] = <<flashes[a][1], 2>>
          /\ flashes[c][1] > flashes[a][1]

-----------------------------------------------------------------------------
(* Properties of the unit-selection page, checked under Spec.              *)

\* C22 as claimed: on the page of GET /select_pulling the i-th of the
\* highlighted wells that the status poll stored is the option preselected
\* for unit i, whenever that well is among the options.  The poll stores the
\* wells under the key 'pozos_celestes' (line 383) and the page reads the key
\* 'celeste_pozos' (line 445), which nothing writes: no option is ever
\* preselected.
C22_HighlightedPreselected ==
    respuesta = Response("select_pulling", 200, "") =>
       LET celestes == get(data_store, "pozos_celestes", <<>>)
       IN  \A i \in DOMAIN form_html :
              (i <= Len(celestes) /\ celestes[i] \in Range(form_html[i].options))
                 => form_html[i].selected = <<celestes[i]>>

\* what the page does: whatever the poll stored, no option of any unit
\* carries the attribute selected
C22_NothingPreselected ==
    respuesta = Response("select_pulling", 200, "") =>
       \A i \in DOMAIN form_html : form_html[i].selected = <<>>

\* the page has been rendered while the store holds a highlighted well that
\* is among the options of the first unit
C22_Rendered ==
    /\ respuesta = Response("select_pulling", 200, "")
    /\ get(data_store, "pozos_celestes", <<>>) # <<>>
    /\ data_store["pozos_celestes"][1] \in Range(form_html[1].options)

\* the positions in eventos of the claims of the unit at position u
C23_De(u) == {a \in DOMAIN eventos : eventos[a].pulling = pulling_lista[u].pulling}

\* C23: within one assignment run the pool of unclaimed wells only shrinks;
\* once a unit has found no candidate in a round it claims in no later
\* round; the k-th entry of a unit's history is the well it claimed in round
\* N+k, and slot k of its matrix row holds the well it claimed in round N+k,
\* or the placeholder well if it claimed none in that round.
C23_SlotIsRoundClaim ==
    /\ [][(assign_pc \in {"ronda", "turno", "matriz"} /\ task' = task)
             => pozos_libres' \subseteq pozos_libres]_vars
    /\ [](assign_pc \in {"ronda", "turno", "matriz", "done"} =>
             /\ pozos_ocupados = {eventos[a].pozo : a \in DOMAIN eventos}
             /\ \A f \in DOMAIN flashes : \A a \in C23_De(flashes[f][2]) :
                   eventos[a].nivel < flashes[f][1]
             /\ \A u \in DOMAIN pulling_asignaciones :
                   /\ Len(pulling_asignaciones[u]) = Cardinality(C23_De(u))
                   /\ \A k \in DOMAIN pulling_asignaciones[u] :
                         \E a \in C23_De(u) :
                            /\ eventos[a].nivel = k
                            /\ eventos[a].pozo = pulling_asignaciones[u][k].pozo)
    /\ [](assign_pc = "done" =>
             \A u \in DOMAIN matriz_prioridad : \A k \in 1..NIVELES :
                IF \E a \in C23_De(u) : eventos[a].nivel = k
                THEN \E a \in C23_De(u) :
                        /\ eventos[a].nivel = k
                        /\ matriz_prioridad[u].slots[k].pozo = eventos[a].pozo
                ELSE matriz_prioridad[u].slots[k].pozo = centinela.pozo)

\* a matrix has been built for two units of which one claimed in the first
\* round and found the pool empty in a later one
C23_Witness ==
    /\ assign_pc = "done"
    /\ Len(pulling_lista) = 2
    /\ \E u \in DOMAIN pulling_asignaciones :
          /\ Len(pulling_asignaciones[u]) \in {1, 2}
          /\ \E f \in DOMAIN flashes : flashes[f][2] = u

\* the number of claims of the unit at position u
C24_Claimed(u) == Len(pulling_asignaciones[u])

RECURSIVE C24_Total(_)
C24_Total(n) == IF n = 0 THEN 0 ELSE C24_Claimed(n) + C24_Total(n - 1)

C24_Min(a, b) == IF a <= b THEN a ELSE b

\* C24: after the three rounds the number of wells claimed is the smaller of
\* three times the number of units and the size of the pool the run started
\* from; each unit has claimed at most three wells, and a unit earlier in
\* the order of the form has claimed as many wells as any later unit or one
\* more.
C24_ClaimCounts ==
    assign_pc \in {"matriz", "done"} =>
       /\ C24_Total(Len(pulling_lista)) =
             C24_Min(NIVELES * Len(pulling_lista), Len(data_store["pozos_disponibles"]))
       /\ Len(eventos) = C24_Total(Len(pulling_lista))
       /\ \A u \in DOMAIN pulling_lista : C24_Claimed(u) <= NIVELES
       /\ \A u, w \in DOMAIN pulling_lista :
             u < w => /\ C24_Claimed(u) >= C24_Claimed(w)
                      /\ C24_Claimed(u) - C24_Claimed(w) <= 1

\* the three rounds are over for two units of which the first has claimed
\* one well more than the second
C24_Witness ==
    /\ assign_pc \in {"matriz", "done"}
    /\ Len(pulling_lista) = 2
    /\ C24_Claimed(1) = C24_Claimed(2) + 1
    /\ C24_Claimed(2) >= 1

-----------------------------------------------------------------------------
(* Properties of the order of the stages, checked under Spec.              *)

\* data_store holds the key k
C25_Has(k) == k \in DOMAIN data_store

\* C25: in every reachable state pulling_data in the store implies
\* df_filtrado in the store, which implies df in the store; a filter request
\* without df redirects to upload, a select request (GET or POST) without
\* df_filtrado redirects to filter and an assign request without
\* pulling_data redirects to select_pulling, each leaving the store as it
\* was; df is first stored by the poll of a successful upload, df_filtrado
\* by a filter request and pulling_data by a select request, and a priority
\* matrix is built only from a store that holds all three.
C25_StageOrder ==
    /\ []((C25_Has("pulling_data") => C25_Has("df_filtrado"))
          /\ (C25_Has("df_filtrado") => C25_Has("df"))
          /\ (assign_pc # "idle" => C25_Has("pulling_data"))
          /\ (matriz_prioridad # <<>> => C25_Has("pulling_data")))
    /\ [][(~C25_Has("df")
              /\ \E zs \in SUBSET zonas_disponibles, n \in 1..MaxPulling : filter_zonas(zs, n))
             => respuesta' = Response("filter", 302, "upload") /\ data_store' = data_store]_vars
    /\ [][(~C25_Has("df_filtrado")
              /\ (select_pulling_GET \/ \E form \in formularios : select_pulling(form)))
             => respuesta' = Response("select_pulling", 302, "filter")
                /\ data_store' = data_store]_vars
    /\ [][(~C25_Has("pulling_data") /\ assign)
             => respuesta' = Response("assign", 302, "select_pulling")
                /\ data_store' = data_store /\ assign_pc' = "idle"]_vars
    /\ [][(~C25_Has("df") /\ C25_Has("df")')
             => task.state = "SUCCESS" /\ respuesta' = Response("status", 200, "")]_vars
    /\ [][(~C25_Has("df_filtrado") /\ C25_Has("df_filtrado")')
             => C25_Has("df") /\ respuesta' = Response("filter", 302, "select_pulling")]_vars
    /\ [][(~C25_Has("pulling_data") /\ C25_Has("pulling_data")')
             => C25_Has("df_filtrado")
                /\ respuesta' = Response("select_pulling", 302, "assign")]_vars

\* an assign request has been turned back to the selection page while the
\* store holds df and df_filtrado and no pulling_data
C25_Witness ==
    /\ respuesta = Response("assign", 302, "select_pulling")
    /\ assign_pc = "idle"
    /\ C25_Has("df") /\ C25_Has("df_filtrado") /\ ~C25_Has("pulling_data")

=============================================================================
